---- MODULE Spec2Model ----
(***************************************************************************)
(* Project Sentinel retail loss-prevention pipeline: the cross-stream      *)
(* correlation engine, the severity scorer, the event assembler and the    *)
(* per-stream threshold detectors.                                         *)
(*                                                                         *)
(* Numbers.  Percentages, confidences and scores are Python floats in the  *)
(* source.  Here a percentage is kept as an exact fraction or as an        *)
(* integer number of percent, a confidence as an integer number of         *)
(* hundredths (0.85 is 85) and a severity score as an integer number of    *)
(* ten-thousandths (0.10 is 1000).                                         *)
(*                                                                         *)
(* Timestamps.  An ISO-8601 string "....T00:MM:SS" is kept as the pair     *)
(* <<MM, SS>>; string comparison is the lexicographic order of the pair    *)
(* and datetime.fromisoformat turns it into seconds.                       *)
(***************************************************************************)
EXTENDS Integers, Sequences, FiniteSets, TLC

(***************************************************************************)
(* Bounds of the model                                                     *)
(***************************************************************************)
\* total number of candidate events over all per-stream reports of one run
MaxEvents == 3

\* timestamps that occur in input records: "..T00:00:00", "..T00:05:00" and
\* "..T00:05:01", which are 0, 300 and 301 seconds into the hour
Times == {<<0, 0>>, <<5, 0>>, <<5, 1>>}
\* the timestamps of the records of a whole run of a master script
RunTimes == {<<0, 0>>, <<5, 1>>}
Stations == {"SCC1", "SCC2"}
\* the stations of the records of a whole run of a master script
RunStations == {"SCC1"}

(***************************************************************************)
(* Generic helpers for Python dictionaries and lists                       *)
(***************************************************************************)
\* dict.get(key, default)
Get(d, key, default) == IF key \in DOMAIN d THEN d[key] ELSE default

\* [f(x) for x in s]
MapSeq(s, F(_)) == [i \in 1..Len(s) |-> F(s[i])]

\* [x for x in s if P(x)]
FilterSeq(s, P(_)) == SelectSeq(s, P)

\* the sequences over S of length at most n
SeqsUpTo(S, n) == UNION {[1..k -> S] : k \in 0..n}

\* the dictionaries that have the key, with a value of S, or do not have it
Optional(key, S) == {<<>>} \cup {key :> v : v \in S}

\* the concatenation of a list of lists
RECURSIVE Concat(_)
Concat(ss) == IF ss = <<>> THEN <<>> ELSE Head(ss) \o Concat(Tail(ss))

\* part / whole * 100 as the exact fraction <<numerator, denominator>>, whole > 0
Percentage(part, whole) == <<part * 100, whole>>
\* a fraction compared with a whole number of percent
PctGt(p, t) == p[1] > t * p[2]
PctGeq(p, t) == p[1] >= t * p[2]

\* str <= str for two timestamp strings of the same format
TsLeq(a, b) == a[1] < b[1] \/ (a[1] = b[1] /\ a[2] <= b[2])

\* datetime.fromisoformat(ts), as seconds since the start of the hour
fromisoformat(ts) == ts[1] * 60 + ts[2]

Abs(x) == IF x < 0 THEN -x ELSE x

Min(a, b) == IF a < b THEN a ELSE b

(***************************************************************************)
(* State                                                                   *)
(***************************************************************************)
VARIABLES
    pc,                 \* position of the running script or test
    time_window,        \* CrossCorrelationAnalyzer.time_window
    all_reports,        \* master_analysis: stream name -> report
    correlated_events,  \* what correlate_events returned
    events,             \* what generate_events_jsonl returned
    all_events,         \* simple_master_analysis: the list written out
    severity_scores,    \* the score computed for each correlated event
    scored_event,       \* the argument of a call of calculate_severity_score
    severity_score,     \* what that call returned
    inventory_input,    \* the inventory snapshots given to a shrinkage detector
    threshold,          \* its threshold, in percent
    shrinkage_detected, \* what it returned
    pos_input,          \* the transactions given to a weight detector
    tolerance,          \* its tolerance, in percent
    discrepancies,      \* what it returned
    runs,               \* how many times the pipeline has been started on the input
    previous_events,    \* what generate_events_jsonl returned in the run before
    ended,              \* run_all_analyses: the streams whose try block has ended
    input_files,        \* enhanced_master_analysis: file name -> the lines of the file
    events_jsonl,       \* the events written to output/events.jsonl
    importable,         \* the analysis modules that Python finds and can load
    imported,           \* the names the import block of master_analysis has bound
    recognition_input,  \* the recognition events given to a detector
    queue_input,        \* the queue observations given to a detector
    rfid_input,         \* the RFID readings given to a detector
    recognition_detected, \* what the recognition detector returned
    queue_detected,     \* what the queue detector returned
    rfid_detected,      \* what the RFID detector returned
    swapping_detected,  \* what detect_barcode_swapping returned
    parameters          \* the arguments the detector was constructed with

masterVars == <<pc, time_window, all_reports, correlated_events, events, all_events>>
scorerVars == <<severity_scores, scored_event, severity_score>>
detectorVars == <<inventory_input, threshold, shrinkage_detected,
                  pos_input, tolerance, discrepancies>>

rerunVars == <<runs, previous_events>>
enhancedVars == <<input_files, events_jsonl>>
importVars == <<importable, imported>>
streamVars == <<recognition_input, queue_input, rfid_input, recognition_detected,
                queue_detected, rfid_detected, swapping_detected, parameters>>
analysisVars == <<importVars, streamVars>>
otherVars == <<rerunVars, ended, enhancedVars, analysisVars>>

vars == <<masterVars, scorerVars, detectorVars, otherVars>>

\* the variables of the parts that are not running
ScorerIdle == severity_scores = <<>> /\ scored_event = <<>> /\ severity_score = 0
DetectorsIdle ==
    /\ inventory_input = <<>> /\ threshold = 0 /\ shrinkage_detected = <<>>
    /\ pos_input = <<>> /\ tolerance = 0 /\ discrepancies = <<>>
RerunIdle == runs = 0 /\ previous_events = <<>>
EnhancedIdle == input_files = <<>> /\ events_jsonl = <<>>
ImportIdle == importable = {} /\ imported = {}
StreamsIdle ==
    /\ recognition_input = <<>> /\ queue_input = <<>> /\ rfid_input = <<>>
    /\ recognition_detected = <<>> /\ queue_detected = <<>> /\ rfid_detected = <<>>
    /\ swapping_detected = <<>> /\ parameters = <<>>
AnalysisIdle == ImportIdle /\ StreamsIdle
OthersIdle == RerunIdle /\ ended = {} /\ EnhancedIdle /\ AnalysisIdle

(***************************************************************************)
(* Candidate events, with the fields their detectors give them             *)
(***************************************************************************)
\* a shrinkage event: the product fell from 100 to curr
ShrinkageEvent(t, curr) ==
    [timestamp |-> t, product |-> "PRD_T_04", previous_qty |-> 100,
     current_qty |-> curr, decrease_percentage |-> 100 - curr,
     severity |-> IF 100 - curr > 10 THEN "HIGH" ELSE "MEDIUM"]

\* a weight discrepancy of pct percent
WeightDiscrepancy(t, s, pct) ==
    [timestamp |-> t, customer_id |-> "C001", station_id |-> s,
     sku |-> "PRD_B_01", product_name |-> "Coca-Cola (1.5L)",
     expected_weight |-> 1500, actual_weight |-> 1500 + 15 * pct,
     weight_difference_pct |-> pct, price |-> 280,
     severity |-> IF pct > 50 THEN "HIGH" ELSE "MEDIUM"]

\* a suspected barcode swap
BarcodeSwap(t, s) ==
    [timestamp |-> t, customer_id |-> "C001", station_id |-> s,
     sku |-> "PRD_B_01", price_ratio |-> 40]

\* a low-confidence recognition; conf is the accuracy in hundredths
LowConfidence(t, s, conf) ==
    [timestamp |-> t, station_id |-> s, predicted_product |-> "PRD_B_01",
     confidence |-> conf, severity |-> IF conf < 50 THEN "HIGH" ELSE "MEDIUM"]

\* a dwell-time anomaly; dwell is in seconds
DwellAnomaly(t, s, dwell) ==
    [timestamp |-> t, station_id |-> s, customer_count |-> 2, dwell_time |-> dwell,
     anomaly_type |-> IF dwell > 300 THEN "HIGH_DWELL_TIME" ELSE "LOW_DWELL_TIME",
     severity |-> IF dwell > 600 THEN "HIGH" ELSE "MEDIUM"]

\* the candidate events a report can hold when its timestamps come from T, its
\* stations from S and its measured values from the third set
ShrinkageEvents(T, Q) == {ShrinkageEvent(t, c) : t \in T, c \in Q}
WeightDiscrepancies(T, S, P) == {WeightDiscrepancy(t, s, p) : t \in T, s \in S, p \in P}
BarcodeSwaps(T, S) == {BarcodeSwap(t, s) : t \in T, s \in S}
LowConfidenceEvents(T, S, C) == {LowConfidence(t, s, c) : t \in T, s \in S, c \in C}
DwellAnomalies(T, S, D) == {DwellAnomaly(t, s, d) : t \in T, s \in S, d \in D}

\* the candidates of a whole run of a master script
RunShrinkageEvents == ShrinkageEvents(RunTimes, {95, 80})
RunWeightDiscrepancies == WeightDiscrepancies(RunTimes, RunStations, {40, 120})
RunBarcodeSwaps == BarcodeSwaps(RunTimes, RunStations)
RunLowConfidenceEvents == LowConfidenceEvents(RunTimes, RunStations, {30, 60})
RunDwellAnomalies == DwellAnomalies(RunTimes, RunStations, {5, 400, 700})

(***************************************************************************)
(* CrossCorrelationAnalyzer                                                *)
(***************************************************************************)
\* the comparison with the window made strict
WithinWindow_Strict(a, b, window) ==
    /\ a.station_id = b.station_id
    /\ Abs(fromisoformat(a.timestamp) - fromisoformat(b.timestamp)) < window

\* the two events lie at the same station and at most window seconds apart
WithinWindow(a, b, window) ==
    /\ a.station_id = b.station_id
    /\ Abs(fromisoformat(a.timestamp) - fromisoformat(b.timestamp)) <= window

\* the dictionary appended for a POS event and a recognition event
FraudAttempt(pos_event, recog_event) ==
    [event_type |-> "CORRELATED_FRAUD_ATTEMPT",
     timestamp |-> pos_event.timestamp,
     station_id |-> pos_event.station_id,
     confidence |-> "HIGH",
     evidence |->
        [pos_issue |-> [product |-> pos_event.product_name,
                        weight_discrepancy_pct |-> pos_event.weight_difference_pct,
                        customer_id |-> pos_event.customer_id],
         recognition_issue |-> [predicted_product |-> recog_event.predicted_product,
                                confidence |-> recog_event.confidence]]]

\* the first loop: POS events outside, recognition events inside
CorrelateFraud(pos_events, recognition_events, window) ==
    LET n == Len(recognition_events)
        pairs == [k \in 1..(Len(pos_events) * n) |->
                     <<pos_events[((k - 1) \div n) + 1],
                       recognition_events[((k - 1) % n) + 1]>>]
        hit(pr) == WithinWindow(pr[1], pr[2], window)
        make(pr) == FraudAttempt(pr[1], pr[2])
    IN  MapSeq(FilterSeq(pairs, hit), make)

\* only the POS events searched
RelatedIssues_PosOnly(queue_event, pos_events, recognition_events, window) ==
    LET near(e) == WithinWindow(e, queue_event, window)
        asPos(e) == <<"pos_discrepancy", e>>
    IN  MapSeq(FilterSeq(pos_events, near), asPos)

\* related_issues of one queue event: POS events first, then recognition events
RelatedIssues(queue_event, pos_events, recognition_events, window) ==
    LET near(e) == WithinWindow(e, queue_event, window)
        asPos(e) == <<"pos_discrepancy", e>>
        asRecog(e) == <<"recognition_issue", e>>
    IN  MapSeq(FilterSeq(pos_events, near), asPos)
            \o MapSeq(FilterSeq(recognition_events, near), asRecog)

\* the dictionary appended for a queue event with related issues
CustomerDifficulty(queue_event, related_issues) ==
    [event_type |-> "CUSTOMER_DIFFICULTY_WITH_FRAUD",
     timestamp |-> queue_event.timestamp,
     station_id |-> queue_event.station_id,
     confidence |-> "MEDIUM",
     evidence |-> [dwell_time |-> queue_event.dwell_time,
                   customer_count |-> queue_event.customer_count,
                   related_issues |-> related_issues]]

\* the second loop
CorrelateQueue(queue_events, pos_events, recognition_events, window) ==
    LET related(q) == RelatedIssues(q, pos_events, recognition_events, window)
        hit(q) == q.anomaly_type = "HIGH_DWELL_TIME" /\ related(q) # <<>>
        make(q) == CustomerDifficulty(q, related(q))
    IN  MapSeq(FilterSeq(queue_events, hit), make)

correlate_events(reports, window) ==
    LET pos_events == Get(Get(reports, "pos", <<>>), "weight_discrepancies", <<>>)
        recognition_events ==
            Get(Get(reports, "recognition", <<>>), "low_confidence_events", <<>>)
        queue_events == Get(Get(reports, "queue", <<>>), "dwell_time_anomalies", <<>>)
    IN  CorrelateFraud(pos_events, recognition_events, window)
            \o CorrelateQueue(queue_events, pos_events, recognition_events, window)

(***************************************************************************)
(* FraudSeverityScorer; weights and scores in ten-thousandths              *)
(***************************************************************************)
WeightDiscrepancyWeight == 3000
RecognitionConfidenceWeight == 2500
CrossCorrelationWeight == 1000
One == 10000

\* min(weight_pct / 100, 1.0), in hundredths; weight_pct is a number of percent
weight_score(weight_pct) == Min(weight_pct, 100)

\* the subtraction the other way round
confidence_score_Swapped(confidence) == confidence - 100

\* 1.0 - confidence, in hundredths
confidence_score(confidence) == 100 - confidence

\* the bonus of a correlated event counted as a whole point, not weighted
calculate_severity_score_WholeBonus(event) ==
    IF Get(event, "event_type", "None")
          \in {"CORRELATED_FRAUD_ATTEMPT", "CUSTOMER_DIFFICULTY_WITH_FRAUD"}
    THEN One
    ELSE 0

calculate_severity_score(event) ==
    LET evidence == Get(event, "evidence", <<>>)
        weight_part ==
            IF "weight_difference_pct" \in DOMAIN evidence
            THEN (weight_score(evidence["weight_difference_pct"])
                     * WeightDiscrepancyWeight) \div 100
            ELSE 0
        confidence_part ==
            IF "confidence" \in DOMAIN evidence
            THEN (confidence_score(evidence["confidence"])
                     * RecognitionConfidenceWeight) \div 100
            ELSE 0
        bonus ==
            IF Get(event, "event_type", "None")
                  \in {"CORRELATED_FRAUD_ATTEMPT", "CUSTOMER_DIFFICULTY_WITH_FRAUD"}
            THEN CrossCorrelationWeight
            ELSE 0
    IN  Min(weight_part + confidence_part + bonus, One)

(***************************************************************************)
(* generate_events_jsonl; confidences in hundredths.  The description      *)
(* strings are left out.                                                   *)
(***************************************************************************)
HighScore == 7000

\* str.lower() on a severity label
Lower(label) ==
    CASE label = "HIGH" -> "high"
      [] label = "MEDIUM" -> "medium"
      [] label = "LOW" -> "low"

InventoryShrinkageEvent(shrinkage) ==
    [timestamp |-> shrinkage.timestamp,
     event_type |-> "INVENTORY_SHRINKAGE",
     location |-> "STORE_FLOOR",
     severity |-> Lower(shrinkage.severity),
     confidence |-> 80,
     metadata |-> [product_sku |-> shrinkage.product,
                   quantity_change |-> shrinkage.current_qty - shrinkage.previous_qty,
                   percentage_decrease |-> shrinkage.decrease_percentage]]

WeightDiscrepancyEvent(weight_disc) ==
    [timestamp |-> weight_disc.timestamp,
     event_type |-> "WEIGHT_DISCREPANCY",
     location |-> weight_disc.station_id,
     severity |-> Lower(weight_disc.severity),
     confidence |-> 85,
     metadata |-> [customer_id |-> weight_disc.customer_id,
                   product_sku |-> weight_disc.sku,
                   expected_weight |-> weight_disc.expected_weight,
                   actual_weight |-> weight_disc.actual_weight,
                   price |-> weight_disc.price]]

BarcodeSwitchingEvent(barcode_event) ==
    [timestamp |-> barcode_event.timestamp,
     event_type |-> "BARCODE_SWITCHING",
     location |-> barcode_event.station_id,
     severity |-> "high",
     confidence |-> 75,
     metadata |-> [customer_id |-> barcode_event.customer_id,
                   product_sku |-> barcode_event.sku,
                   price_ratio |-> barcode_event.price_ratio]]

ScannerAvoidanceEvent(low_conf) ==
    [timestamp |-> low_conf.timestamp,
     event_type |-> "SCANNER_AVOIDANCE",
     location |-> low_conf.station_id,
     severity |-> "medium",
     confidence |-> 60,
     metadata |-> [predicted_product |-> low_conf.predicted_product,
                   recognition_confidence |-> low_conf.confidence]]

\* the confidence of the block above copied
CheckoutDifficultyEvent_CopiedConfidence(dwell_anomaly) ==
    [timestamp |-> dwell_anomaly.timestamp,
     event_type |-> "CHECKOUT_DIFFICULTY",
     location |-> dwell_anomaly.station_id,
     severity |-> "medium",
     confidence |-> 60,
     metadata |-> [dwell_time |-> dwell_anomaly.dwell_time,
                   customer_count |-> dwell_anomaly.customer_count,
                   anomaly_type |-> dwell_anomaly.anomaly_type]]

CheckoutDifficultyEvent(dwell_anomaly) ==
    [timestamp |-> dwell_anomaly.timestamp,
     event_type |-> "CHECKOUT_DIFFICULTY",
     location |-> dwell_anomaly.station_id,
     severity |-> "medium",
     confidence |-> 50,
     metadata |-> [dwell_time |-> dwell_anomaly.dwell_time,
                   customer_count |-> dwell_anomaly.customer_count,
                   anomaly_type |-> dwell_anomaly.anomaly_type]]

CorrelatedEvent(corr_event) ==
    [timestamp |-> corr_event.timestamp,
     event_type |-> corr_event.event_type,
     location |-> corr_event.station_id,
     severity |-> IF calculate_severity_score(corr_event) > HighScore
                  THEN "high" ELSE "medium",
     confidence |-> IF corr_event.confidence = "HIGH" THEN 90 ELSE 70,
     metadata |-> corr_event.evidence]

\* the list left in the order of the appends
SortByTimestamp_Omitted(s) == s

\* list.sort(key=lambda x: x['timestamp']): a stable sort on the timestamp strings
RECURSIVE SortByTimestamp(_)
SortByTimestamp(s) ==
    IF s = <<>> THEN <<>>
    ELSE LET sorted == SortByTimestamp(SubSeq(s, 1, Len(s) - 1))
             e == s[Len(s)]
             k == Cardinality({i \in 1..Len(sorted) :
                                  TsLeq(sorted[i].timestamp, e.timestamp)})
         IN  SubSeq(sorted, 1, k) \o <<e>> \o SubSeq(sorted, k + 1, Len(sorted))

\* the severity test dropped: every candidate passes
IsHigh_Any(e) == e.severity \in {"HIGH", "MEDIUM"}

\* low_conf['severity'] == 'HIGH', dwell_anomaly['severity'] == 'HIGH'
IsHigh(e) == e.severity = "HIGH"

\* the recognition block indented under the POS block
AssembledEvents_RecognitionUnderPos(reports, correlated) ==
    LET inventory ==
            IF "inventory" \in DOMAIN reports
            THEN MapSeq(Get(reports["inventory"], "shrinkage_events", <<>>),
                        InventoryShrinkageEvent)
            ELSE <<>>
        pos ==
            IF "pos" \in DOMAIN reports
            THEN MapSeq(Get(reports["pos"], "weight_discrepancies", <<>>),
                        WeightDiscrepancyEvent)
                 \o MapSeq(Get(reports["pos"], "suspected_barcode_swapping", <<>>),
                           BarcodeSwitchingEvent)
            ELSE <<>>
        recognition ==
            IF "pos" \in DOMAIN reports /\ "recognition" \in DOMAIN reports
            THEN MapSeq(FilterSeq(Get(reports["recognition"], "low_confidence_events", <<>>),
                                  IsHigh),
                        ScannerAvoidanceEvent)
            ELSE <<>>
        queue ==
            IF "queue" \in DOMAIN reports
            THEN MapSeq(FilterSeq(Get(reports["queue"], "dwell_time_anomalies", <<>>),
                                  IsHigh),
                        CheckoutDifficultyEvent)
            ELSE <<>>
    IN  inventory \o pos \o recognition \o queue \o MapSeq(correlated, CorrelatedEvent)

\* the events appended before the sort, in the order they are appended
AssembledEvents(reports, correlated) ==
    LET inventory ==
            IF "inventory" \in DOMAIN reports
            THEN MapSeq(Get(reports["inventory"], "shrinkage_events", <<>>),
                        InventoryShrinkageEvent)
            ELSE <<>>
        pos ==
            IF "pos" \in DOMAIN reports
            THEN MapSeq(Get(reports["pos"], "weight_discrepancies", <<>>),
                        WeightDiscrepancyEvent)
                 \o MapSeq(Get(reports["pos"], "suspected_barcode_swapping", <<>>),
                           BarcodeSwitchingEvent)
            ELSE <<>>
        recognition ==
            IF "recognition" \in DOMAIN reports
            THEN MapSeq(FilterSeq(Get(reports["recognition"], "low_confidence_events", <<>>),
                                  IsHigh),
                        ScannerAvoidanceEvent)
            ELSE <<>>
        queue ==
            IF "queue" \in DOMAIN reports
            THEN MapSeq(FilterSeq(Get(reports["queue"], "dwell_time_anomalies", <<>>),
                                  IsHigh),
                        CheckoutDifficultyEvent)
            ELSE <<>>
    IN  inventory \o pos \o recognition \o queue \o MapSeq(correlated, CorrelatedEvent)

\* every event stamped with the time its analysis was made
generate_events_jsonl_Stamped(reports, window) ==
    LET generated_at == Get(Get(reports, "pos", <<>>), "analysis_timestamp", 0)
        stamp(e) == ("generated_at" :> generated_at) @@ e
    IN  MapSeq(SortByTimestamp(AssembledEvents(reports, correlate_events(reports, window))),
               stamp)

generate_events_jsonl(reports, window) ==
    SortByTimestamp(AssembledEvents(reports, correlate_events(reports, window)))

(***************************************************************************)
(* master_analysis.main: run_all_analyses, then generate_events_jsonl      *)
(***************************************************************************)
DefaultWindow == 300

\* the candidate events held by the reports collected so far
CandidateCount(reports) ==
    Len(Get(Get(reports, "inventory", <<>>), "shrinkage_events", <<>>))
  + Len(Get(Get(reports, "pos", <<>>), "weight_discrepancies", <<>>))
  + Len(Get(Get(reports, "pos", <<>>), "suspected_barcode_swapping", <<>>))
  + Len(Get(Get(reports, "recognition", <<>>), "low_confidence_events", <<>>))
  + Len(Get(Get(reports, "queue", <<>>), "dwell_time_anomalies", <<>>))

Room(reports) == MaxEvents - CandidateCount(reports)

\* reports[key] = report
Store(reports, key, report) == (key :> report) @@ reports

MasterInit ==
    /\ pc = "inventory"
    /\ time_window = DefaultWindow
    /\ all_reports = <<>>
    /\ correlated_events = <<>>
    /\ events = <<>>
    /\ all_events = <<>>
    /\ OthersIdle
    /\ ScorerIdle
    /\ DetectorsIdle

\* each try block: the generator returns a report, which is stored, or raises,
\* and the except clause leaves reports as it was
RunInventoryAnalysis ==
    /\ pc = "inventory"
    /\ \/ \E shrinkage_events \in SeqsUpTo(RunShrinkageEvents, Room(all_reports)) :
             all_reports' = Store(all_reports, "inventory",
                                  [shrinkage_events |-> shrinkage_events])
       \/ all_reports' = all_reports
    /\ pc' = "pos"
    /\ ended' = ended \cup {"inventory"}
    /\ UNCHANGED <<rerunVars, enhancedVars, analysisVars, time_window, correlated_events, events,
                   all_events, scorerVars, detectorVars>>

RunPosAnalysis ==
    /\ pc = "pos"
    /\ \/ \E weight_discrepancies \in SeqsUpTo(RunWeightDiscrepancies, Room(all_reports)) :
          \E barcode_suspicious \in
                SeqsUpTo(RunBarcodeSwaps, Room(all_reports) - Len(weight_discrepancies)) :
             all_reports' = Store(all_reports, "pos",
                                  [weight_discrepancies |-> weight_discrepancies,
                                   suspected_barcode_swapping |-> barcode_suspicious])
       \/ all_reports' = all_reports
    /\ pc' = "recognition"
    /\ ended' = ended \cup {"pos"}
    /\ UNCHANGED <<rerunVars, enhancedVars, analysisVars, time_window, correlated_events, events,
                   all_events, scorerVars, detectorVars>>

RunRecognitionAnalysis ==
    /\ pc = "recognition"
    /\ \/ \E low_confidence_events \in SeqsUpTo(RunLowConfidenceEvents, Room(all_reports)) :
             all_reports' = Store(all_reports, "recognition",
                                  [low_confidence_events |-> low_confidence_events])
       \/ all_reports' = all_reports
    /\ pc' = "queue"
    /\ ended' = ended \cup {"recognition"}
    /\ UNCHANGED <<rerunVars, enhancedVars, analysisVars, time_window, correlated_events, events,
                   all_events, scorerVars, detectorVars>>

\* the RFID analysis left out of run_all_analyses
RunQueueAnalysis_Last ==
    /\ pc = "queue"
    /\ \/ \E dwell_anomalies \in SeqsUpTo(RunDwellAnomalies, Room(all_reports)) :
             all_reports' = Store(all_reports, "queue",
                                  [dwell_time_anomalies |-> dwell_anomalies])
       \/ all_reports' = all_reports
    /\ pc' = "generate"
    /\ ended' = ended \cup {"queue"}
    /\ UNCHANGED <<rerunVars, enhancedVars, analysisVars, time_window, correlated_events, events,
                   all_events, scorerVars, detectorVars>>

RunQueueAnalysis ==
    /\ pc = "queue"
    /\ \/ \E dwell_anomalies \in SeqsUpTo(RunDwellAnomalies, Room(all_reports)) :
             all_reports' = Store(all_reports, "queue",
                                  [dwell_time_anomalies |-> dwell_anomalies])
       \/ all_reports' = all_reports
    /\ pc' = "rfid"
    /\ ended' = ended \cup {"queue"}
    /\ UNCHANGED <<rerunVars, enhancedVars, analysisVars, time_window, correlated_events, events,
                   all_events, scorerVars, detectorVars>>

RunRfidAnalysis ==
    /\ pc = "rfid"
    /\ \/ all_reports' = Store(all_reports, "rfid",
                               [summary |-> [rfid_detection_rate |-> 100,
                                             security_incidents |-> 0]])
       \/ all_reports' = all_reports
    /\ pc' = "generate"
    /\ ended' = ended \cup {"rfid"}
    /\ UNCHANGED <<rerunVars, enhancedVars, analysisVars, time_window, correlated_events, events,
                   all_events, scorerVars, detectorVars>>

GenerateEvents ==
    /\ pc = "generate"
    /\ correlated_events' = correlate_events(all_reports, time_window)
    /\ severity_scores' = MapSeq(correlate_events(all_reports, time_window),
                                  calculate_severity_score)
    /\ events' = generate_events_jsonl(all_reports, time_window)
    /\ pc' = "done"
    /\ UNCHANGED <<otherVars, time_window, all_reports, all_events, scored_event, severity_score, detectorVars>>

(***************************************************************************)
(* simple_master_analysis.run_simple_analysis                              *)
(***************************************************************************)
\* a weight discrepancy as simple_pos_analysis reports it
SimpleWeightDiscrepancy(t, s, pct) ==
    [timestamp |-> t, customer_id |-> "C001", station_id |-> s,
     product_name |-> "Coca-Cola (1.5L)",
     expected_weight |-> 1500, actual_weight |-> 1500 + 15 * pct,
     weight_difference_pct |-> pct,
     severity |-> IF pct > 50 THEN "HIGH" ELSE "MEDIUM"]

\* a line of product_recognition.jsonl; accuracy in hundredths
RecognitionRecord(t, s, accuracy) ==
    [timestamp |-> t, station_id |-> s,
     data |-> [predicted_product |-> "PRD_B_01", accuracy |-> accuracy]]

\* a line of queue_monitoring.jsonl
QueueRecord(t, s, customer_count, dwell) ==
    [timestamp |-> t, station_id |-> s,
     data |-> [customer_count |-> customer_count, average_dwell_time |-> dwell]]

\* what the files of a run of the simple script hold
RunSimpleWeightDiscrepancies ==
    {SimpleWeightDiscrepancy(t, s, p) : t \in RunTimes, s \in RunStations, p \in {40, 120}}
RunRecognitionRecords ==
    {RecognitionRecord(t, s, a) : t \in RunTimes, s \in RunStations, a \in {30, 60, 90}}
RunQueueRecords ==
    {QueueRecord(t, s, c, d) :
        t \in RunTimes, s \in RunStations, c \in {0, 2}, d \in {400, 700}}

\* what a step of the script finds: a file it can read, or an exception.  A
\* step that fails part-way has appended what a shorter file gives.
Failed == [ok |-> FALSE, content |-> <<>>]
Loaded(content) == [ok |-> TRUE, content |-> content]
Outcomes(S, n) == {Failed} \cup {Loaded(c) : c \in SeqsUpTo(S, n)}

SimpleWeightDiscrepancyEvent(event) ==
    [timestamp |-> event.timestamp,
     event_type |-> "WEIGHT_DISCREPANCY",
     location |-> event.station_id,
     severity |-> Lower(event.severity),
     confidence |-> 85,
     metadata |-> [customer_id |-> event.customer_id,
                   expected_weight |-> event.expected_weight,
                   actual_weight |-> event.actual_weight]]

SimpleScannerAvoidanceEvent(record) ==
    [timestamp |-> record.timestamp,
     event_type |-> "SCANNER_AVOIDANCE",
     location |-> record.station_id,
     severity |-> "medium",
     confidence |-> 60,
     metadata |-> [predicted_product |-> record.data.predicted_product,
                   recognition_confidence |-> record.data.accuracy]]

SimpleCheckoutDifficultyEvent(record) ==
    [timestamp |-> record.timestamp,
     event_type |-> "CHECKOUT_DIFFICULTY",
     location |-> record.station_id,
     severity |-> "medium",
     confidence |-> 50,
     metadata |-> [dwell_time |-> record.data.average_dwell_time,
                   customer_count |-> record.data.customer_count]]

\* all_events before the sort; a step that failed has appended nothing
SimpleAssembledEvents(inventory, pos, recognition, queue) ==
    LET veryLow(record) == record.data.accuracy < 50
        veryLong(record) ==
            /\ record.data.customer_count > 0
            /\ record.data.average_dwell_time > 300
            /\ record.data.average_dwell_time > 600
    IN  MapSeq(inventory.content, InventoryShrinkageEvent)
            \o MapSeq(pos.content, SimpleWeightDiscrepancyEvent)
            \o MapSeq(FilterSeq(recognition.content, veryLow), SimpleScannerAvoidanceEvent)
            \o MapSeq(FilterSeq(queue.content, veryLong), SimpleCheckoutDifficultyEvent)

run_simple_analysis(inventory, pos, recognition, queue) ==
    SortByTimestamp(SimpleAssembledEvents(inventory, pos, recognition, queue))

RunSimpleAnalysis ==
    /\ pc = "inventory"
    /\ \E inventory \in Outcomes(RunShrinkageEvents, MaxEvents) :
       \E pos \in Outcomes(RunSimpleWeightDiscrepancies,
                           MaxEvents - Len(inventory.content)) :
       \E recognition \in Outcomes(RunRecognitionRecords,
                           MaxEvents - Len(inventory.content) - Len(pos.content)) :
       \E queue \in Outcomes(RunQueueRecords,
                           MaxEvents - Len(inventory.content) - Len(pos.content)
                               - Len(recognition.content)) :
          all_events' = run_simple_analysis(inventory, pos, recognition, queue)
    /\ pc' = "simple_done"
    /\ UNCHANGED <<otherVars, time_window, all_reports, correlated_events, events, scorerVars, detectorVars>>

MasterNext ==
    \/ RunInventoryAnalysis
    \/ RunPosAnalysis
    \/ RunRecognitionAnalysis
    \/ RunQueueAnalysis
    \/ RunRfidAnalysis
    \/ GenerateEvents
    \/ RunSimpleAnalysis

Init == MasterInit
Next == MasterNext
Spec == Init /\ [][Next]_vars

(***************************************************************************)
(* Properties of the master scripts                                        *)
(***************************************************************************)
\* timestamp[i] <= timestamp[i+1] for all adjacent records
IsSorted(s) == \A i \in 1..(Len(s) - 1) : TsLeq(s[i].timestamp, s[i + 1].timestamp)

\* C1: the list generate_events_jsonl returns and the all_events list of
\* run_simple_analysis are sorted ascending by timestamp, whatever reports,
\* missing or empty, they were built from.
C1_OutputSorted ==
    /\ pc = "done" => IsSorted(events)
    /\ pc = "simple_done" => IsSorted(all_events)

\* generate_events_jsonl has returned a list whose events were appended out of
\* timestamp order
C1_Witness ==
    /\ pc = "done"
    /\ Len(events) >= 2
    /\ ~IsSorted(AssembledEvents(all_reports, correlated_events))
    /\ events[1].timestamp # events[Len(events)].timestamp

StreamNames == {"inventory", "pos", "recognition", "queue", "rfid"}

\* a report of every stream with no candidate in it
EmptyReports ==
    [inventory |-> [shrinkage_events |-> <<>>],
     pos |-> [weight_discrepancies |-> <<>>, suspected_barcode_swapping |-> <<>>],
     recognition |-> [low_confidence_events |-> <<>>],
     queue |-> [dwell_time_anomalies |-> <<>>],
     rfid |-> [summary |-> [rfid_detection_rate |-> 0, security_incidents |-> 0]]]

\* the reports with an empty report in the place of every failed stream
WithFailedStreamsEmpty(reports) == reports @@ EmptyReports

ReportedLowConfidence ==
    Get(Get(all_reports, "recognition", <<>>), "low_confidence_events", <<>>)
ReportedDwellAnomalies ==
    Get(Get(all_reports, "queue", <<>>), "dwell_time_anomalies", <<>>)

\* how often the value x occurs in the list s
Occurrences(s, x) == Cardinality({i \in 1..Len(s) : s[i] = x})

\* the events of the given type in the final list
EventsOfType(type) == {i \in 1..Len(events) : events[i].event_type = type}

\* the standalone events of the given type written for the candidate c
StandaloneFor(type, c) ==
    {i \in EventsOfType(type) :
        /\ events[i].timestamp = c.timestamp
        /\ events[i].location = c.station_id
        /\ \/ /\ type = "SCANNER_AVOIDANCE"
              /\ events[i].metadata.recognition_confidence = c.confidence
           \/ /\ type = "CHECKOUT_DIFFICULTY"
              /\ events[i].metadata.dwell_time = c.dwell_time}

C15_CorrelationAfterAnalyses ==
    /\ [](pc \in {"generate", "done"} => ended = StreamNames)
    /\ [](ended # StreamNames => (correlated_events = <<>> /\ events = <<>>))
    /\ [][(correlated_events' # correlated_events \/ events' # events)
              => (ended = StreamNames /\ all_reports' = all_reports)]_vars
    /\ [][(pc \in {"generate", "done"}) => (all_reports' = all_reports)]_vars

\* the five analyses have ended, one of them by failing, and the correlation
\* made afterwards has joined the reports of the others
C15_Witness ==
    /\ pc = "done"
    /\ ended = StreamNames
    /\ "rfid" \notin DOMAIN all_reports
    /\ correlated_events # <<>>

(***************************************************************************)
(* The correlation engine and the scorer on given reports                  *)
(***************************************************************************)
\* the windows an analyzer is constructed with
Windows == {0, DefaultWindow}

CorrelateInit ==
    /\ pc = "correlate"
    /\ time_window \in Windows
    /\ \E pos_events \in SeqsUpTo(WeightDiscrepancies(Times, Stations, {120}), MaxEvents) :
       \E recognition_events \in
             SeqsUpTo(LowConfidenceEvents(Times, Stations, {30}),
                      MaxEvents - Len(pos_events)) :
       \E queue_events \in
             SeqsUpTo(DwellAnomalies(Times, Stations, {5, 400}),
                      MaxEvents - Len(pos_events) - Len(recognition_events)) :
          all_reports =
             [pos |-> [weight_discrepancies |-> pos_events,
                       suspected_barcode_swapping |-> <<>>],
              recognition |-> [low_confidence_events |-> recognition_events],
              queue |-> [dwell_time_anomalies |-> queue_events]]
    /\ correlated_events = <<>>
    /\ events = <<>>
    /\ all_events = <<>>
    /\ OthersIdle
    /\ ScorerIdle
    /\ DetectorsIdle

\* correlated_events = correlator.correlate_events(all_reports)
Correlate ==
    /\ pc = "correlate"
    /\ correlated_events' = correlate_events(all_reports, time_window)
    /\ pc' = "score"
    /\ UNCHANGED <<otherVars, time_window, all_reports, events, all_events, scorerVars, detectorVars>>

\* severity_score = scorer.calculate_severity_score(corr_event), for each of them
ScoreCorrelated ==
    /\ pc = "score"
    /\ severity_scores' = MapSeq(correlated_events, calculate_severity_score)
    /\ pc' = "scored"
    /\ UNCHANGED <<otherVars, time_window, all_reports, correlated_events, events, all_events,
                   scored_event, severity_score, detectorVars>>

CorrelateNext == Correlate \/ ScoreCorrelated

SpecCorrelate == CorrelateInit /\ [][CorrelateNext]_vars

\* the candidate lists correlate_events was given
PosCandidates == all_reports["pos"]["weight_discrepancies"]
RecognitionCandidates == all_reports["recognition"]["low_confidence_events"]
QueueCandidates == all_reports["queue"]["dwell_time_anomalies"]

\* the events of one type among the correlated events, in their order
FraudAttempts ==
    SelectSeq(correlated_events, LAMBDA e : e.event_type = "CORRELATED_FRAUD_ATTEMPT")
Difficulties ==
    SelectSeq(correlated_events,
              LAMBDA e : e.event_type = "CUSTOMER_DIFFICULTY_WITH_FRAUD")

\* |t(a) - t(b)| in seconds
SecondsApart(a, b) ==
    LET d == fromisoformat(a.timestamp) - fromisoformat(b.timestamp)
    IN  IF d < 0 THEN -d ELSE d

\* candidate b is at the station of candidate a and within the window of it
Related(a, b) == a.station_id = b.station_id /\ SecondsApart(a, b) <= time_window

\* the index pairs (POS candidate, recognition candidate) that match
MatchingPairs ==
    {pr \in (1..Len(PosCandidates)) \X (1..Len(RecognitionCandidates)) :
        Related(PosCandidates[pr[1]], RecognitionCandidates[pr[2]])}

HasCorrelated == pc \in {"score", "scored"}

\* C2: correlate_events emits one CORRELATED_FRAUD_ATTEMPT of confidence HIGH
\* for every pair of a POS weight-discrepancy candidate and a recognition
\* low-confidence candidate at the same station and at most time_window seconds
\* apart (boundary included), and none for any other pair: the fraud events are,
\* as a multiset, the events of the matching pairs.
C2_OneFraudAttemptPerMatchingPair ==
    HasCorrelated =>
        LET ofPair(pr) == FraudAttempt(PosCandidates[pr[1]], RecognitionCandidates[pr[2]])
            emitted == {FraudAttempts[k] : k \in 1..Len(FraudAttempts)}
            due == {ofPair(pr) : pr \in MatchingPairs}
        IN  /\ Len(FraudAttempts) = Cardinality(MatchingPairs)
            /\ \A v \in emitted : v.confidence = "HIGH"
            /\ \A v \in emitted \cup due :
                  Cardinality({k \in 1..Len(FraudAttempts) : FraudAttempts[k] = v})
                     = Cardinality({pr \in MatchingPairs : ofPair(pr) = v})

\* a POS candidate with one recognition candidate exactly time_window seconds
\* before or after it and another time_window + 1 seconds away, at one station:
\* the first pair is correlated and the second is not
C2_Witness ==
    /\ HasCorrelated
    /\ time_window = DefaultWindow
    /\ Len(PosCandidates) = 1
    /\ Len(RecognitionCandidates) = 2
    /\ \A j \in 1..2 : RecognitionCandidates[j].station_id = PosCandidates[1].station_id
    /\ SecondsApart(PosCandidates[1], RecognitionCandidates[1]) = time_window
    /\ SecondsApart(PosCandidates[1], RecognitionCandidates[2]) = time_window + 1
    /\ Len(FraudAttempts) = 1

\* the candidates related to queue candidate q, by index
RelatedPos(q) == {i \in 1..Len(PosCandidates) : Related(q, PosCandidates[i])}
RelatedRecognition(q) ==
    {j \in 1..Len(RecognitionCandidates) : Related(q, RecognitionCandidates[j])}

\* the queue candidates that are due a difficulty event, by index
DueQueue ==
    {n \in 1..Len(QueueCandidates) :
        /\ QueueCandidates[n].anomaly_type = "HIGH_DWELL_TIME"
        /\ RelatedPos(QueueCandidates[n]) \cup RelatedRecognition(QueueCandidates[n]) # {}}

\* C3: correlate_events emits one CUSTOMER_DIFFICULTY_WITH_FRAUD of confidence
\* MEDIUM for each HIGH_DWELL_TIME queue candidate that has a POS or recognition
\* candidate at its station within the window, its evidence listing exactly
\* those candidates, and nothing for a HIGH_DWELL_TIME candidate without one or
\* for a LOW_DWELL_TIME candidate.
C3_OneDifficultyPerRelatedHighDwell ==
    HasCorrelated =>
        /\ Len(Difficulties) = Cardinality(DueQueue)
        /\ \A k \in 1..Len(Difficulties) :
              LET n == CHOOSE m \in DueQueue :
                          Cardinality({l \in DueQueue : l <= m}) = k
                  q == QueueCandidates[n]
                  d == Difficulties[k]
                  issues == d.evidence.related_issues
                  listed == {issues[x] : x \in 1..Len(issues)}
                  asPos(i) == <<"pos_discrepancy", PosCandidates[i]>>
                  asRecog(j) == <<"recognition_issue", RecognitionCandidates[j]>>
                  due == {asPos(i) : i \in RelatedPos(q)}
                            \cup {asRecog(j) : j \in RelatedRecognition(q)}
              IN  /\ d.confidence = "MEDIUM"
                  /\ d.timestamp = q.timestamp
                  /\ d.station_id = q.station_id
                  /\ d.evidence.dwell_time = q.dwell_time
                  /\ Len(issues) = Cardinality(RelatedPos(q))
                                      + Cardinality(RelatedRecognition(q))
                  /\ \A v \in listed \cup due :
                        Cardinality({x \in 1..Len(issues) : issues[x] = v})
                           = Cardinality({i \in RelatedPos(q) : asPos(i) = v})
                             + Cardinality({j \in RelatedRecognition(q) : asRecog(j) = v})

\* a HIGH_DWELL_TIME candidate with a POS and a recognition candidate at its
\* station within the window: one difficulty event lists the two
C3_Witness ==
    /\ HasCorrelated
    /\ Len(QueueCandidates) = 1
    /\ QueueCandidates[1].anomaly_type = "HIGH_DWELL_TIME"
    /\ Cardinality(RelatedPos(QueueCandidates[1])) = 1
    /\ Cardinality(RelatedRecognition(QueueCandidates[1])) = 1
    /\ Len(Difficulties) = 1
    /\ Len(Difficulties[1].evidence.related_issues) = 2

\* C5: the score computed for a CORRELATED_FRAUD_ATTEMPT built from a POS
\* candidate of p percent and a recognition candidate of accuracy a is
\* 0.30 * min(p / 100, 1) + 0.25 * (1 - a) + 0.10.
C5_ScoreCombinesBothFeatures ==
    pc = "scored" =>
        \A k \in 1..Len(correlated_events) :
            correlated_events[k].event_type = "CORRELATED_FRAUD_ATTEMPT" =>
                LET p == correlated_events[k].evidence.pos_issue.weight_discrepancy_pct
                    a == correlated_events[k].evidence.recognition_issue.confidence
                IN  severity_scores[k]
                       = (Min(p, 100) * WeightDiscrepancyWeight) \div 100
                         + ((100 - a) * RecognitionConfidenceWeight) \div 100
                         + CrossCorrelationWeight

(***************************************************************************)
(* The scorer on any event                                                 *)
(***************************************************************************)
\* weight percentages, up to ten times the expected weight
WeightPercentages == {0, 50, 100, 101, 1000}
\* confidences in [0, 1], in hundredths
Confidences == {0, 30, 100}
EventTypes ==
    {"CORRELATED_FRAUD_ATTEMPT", "CUSTOMER_DIFFICULTY_WITH_FRAUD", "WEIGHT_DISCREPANCY"}

Evidences ==
    {w @@ c : w \in Optional("weight_difference_pct", WeightPercentages),
              c \in Optional("confidence", Confidences)}

ScoredEvents ==
    {t @@ e : t \in Optional("event_type", EventTypes),
              e \in Optional("evidence", Evidences)}

ScoreInit ==
    /\ pc = "score_event"
    /\ scored_event \in ScoredEvents
    /\ severity_score = 0
    /\ severity_scores = <<>>
    /\ time_window = DefaultWindow
    /\ all_reports = <<>>
    /\ correlated_events = <<>>
    /\ events = <<>>
    /\ all_events = <<>>
    /\ OthersIdle
    /\ DetectorsIdle

ScoreEvent ==
    /\ pc = "score_event"
    /\ severity_score' = calculate_severity_score(scored_event)
    /\ pc' = "event_scored"
    /\ UNCHANGED <<otherVars, time_window, all_reports, correlated_events, events, all_events,
                   severity_scores, scored_event, detectorVars>>

ScoreNext == ScoreEvent

SpecScore == ScoreInit /\ [][ScoreNext]_vars

\* C4: calculate_severity_score returns a value in [0, 1] for every event,
\* whichever evidence features are present and whatever the event type.
C4_ScoreInUnitInterval ==
    pc = "event_scored" => 0 <= severity_score /\ severity_score <= One

\* a correlated event with a weight percentage above 100 and confidence 0 has
\* been scored: every part of the score is at its largest
C4_Witness ==
    /\ pc = "event_scored"
    /\ "evidence" \in DOMAIN scored_event
    /\ "event_type" \in DOMAIN scored_event
    /\ "weight_difference_pct" \in DOMAIN scored_event["evidence"]
    /\ "confidence" \in DOMAIN scored_event["evidence"]
    /\ scored_event["evidence"]["weight_difference_pct"] > 100
    /\ scored_event["evidence"]["confidence"] = 0
    /\ severity_score
          = WeightDiscrepancyWeight + RecognitionConfidenceWeight + CrossCorrelationWeight

(***************************************************************************)
(* The shrinkage detectors                                                 *)
(***************************************************************************)
\* snapshots in one input
MaxSnapshots == 3
\* thresholds a detector is given: the one of the reports and the default of
\* the constructor
DefaultThreshold == 3
Thresholds == {DefaultThreshold, 5}
\* the order of the keys in a snapshot
Products == <<"A", "B">>
Quantities == {0, 80, 90, 91, 95, 97, 100}

\* the "data" of a snapshot: a quantity for each product it lists
SnapshotData ==
    {a @@ b : a \in Optional("A", Quantities), b \in Optional("B", {0, 100})}

\* inputs of n snapshots in the order of their timestamps
InventoryInputs(n) ==
    {[i \in 1..n |-> [timestamp |-> <<0, i>>, data |-> d[i]]] : d \in [1..n -> SnapshotData]}

\* the keys of a dictionary in their order
Keys(d) == FilterSeq(Products, LAMBDA product : product \in DOMAIN d)

\* the columns of pd.DataFrame(data) but 'timestamp': the keys of the records in
\* the order they first appear
RECURSIVE Columns(_)
Columns(data) ==
    IF data = <<>> THEN <<>>
    ELSE LET before == Columns(SubSeq(data, 1, Len(data) - 1))
             seen == {before[k] : k \in 1..Len(before)}
         IN  before \o FilterSeq(Keys(data[Len(data)].data),
                                  LAMBDA product : product \notin seen)

\* the dictionary a shrinkage detector appends
ShrinkageRecord(timestamp, product, prev_qty, curr_qty, severity) ==
    [timestamp |-> timestamp, product |-> product,
     previous_qty |-> prev_qty, current_qty |-> curr_qty,
     decrease_percentage |-> Percentage(prev_qty - curr_qty, prev_qty),
     severity |-> severity]

\* InventoryShrinkageDetector.detect_shrinkage_events on the frame of the
\* snapshots.  A product a snapshot does not list is NaN in the frame, and every
\* comparison with NaN is false.
InventoryShrinkageDetector_detect_shrinkage_events(inventory_data, T) ==
    LET rows == [k \in 1..(Len(inventory_data) - 1) |-> k + 1]
        prev(product, i) == inventory_data[i - 1].data[product]
        curr(product, i) == inventory_data[i].data[product]
        ofProduct(product) ==
            LET flagged(i) ==
                    /\ product \in DOMAIN inventory_data[i - 1].data
                    /\ product \in DOMAIN inventory_data[i].data
                    /\ prev(product, i) > 0
                    /\ PctGt(Percentage(prev(product, i) - curr(product, i),
                                        prev(product, i)), T)
                make(i) ==
                    ShrinkageRecord(inventory_data[i].timestamp, product,
                        prev(product, i), curr(product, i),
                        IF PctGt(Percentage(prev(product, i) - curr(product, i),
                                            prev(product, i)), 10)
                        THEN "HIGH" ELSE "MEDIUM")
            IN  MapSeq(FilterSeq(rows, flagged), make)
    IN  Concat(MapSeq(Columns(inventory_data), ofProduct))

\* simple_inventory_analysis.detect_shrinkage_events
simple_detect_shrinkage_events(data, T) ==
    IF Len(data) < 2 THEN <<>>
    ELSE
    LET products == Keys(data[1].data)
        ofPair(i) ==
            LET prev_qty(product) == Get(data[i - 1].data, product, 0)
                curr_qty(product) == Get(data[i].data, product, 0)
                decrease_pct(product) ==
                    Percentage(prev_qty(product) - curr_qty(product), prev_qty(product))
                flagged(product) ==
                    prev_qty(product) > 0 /\ PctGt(decrease_pct(product), T)
                make(product) ==
                    ShrinkageRecord(data[i].timestamp, product,
                        prev_qty(product), curr_qty(product),
                        IF PctGt(decrease_pct(product), 10) THEN "HIGH" ELSE "MEDIUM")
            IN  MapSeq(FilterSeq(products, flagged), make)
    IN  Concat([k \in 1..(Len(data) - 1) |-> ofPair(k + 1)])

\* enhanced_master_analysis.analyze_inventory_shrinkage
analyze_inventory_shrinkage(inventory_data) ==
    LET sorted_data == SortByTimestamp(inventory_data)
        ofPair(i) ==
            LET prev_snapshot == sorted_data[i - 1].data
                curr_snapshot == sorted_data[i].data
                decrease_pct(product) ==
                    Percentage(prev_snapshot[product] - curr_snapshot[product],
                               prev_snapshot[product])
                flagged(product) ==
                    /\ product \in DOMAIN curr_snapshot
                    /\ curr_snapshot[product] < prev_snapshot[product]
                    /\ PctGeq(decrease_pct(product), 3)
                make(product) ==
                    ShrinkageRecord(sorted_data[i].timestamp, product,
                        prev_snapshot[product], curr_snapshot[product],
                        IF PctGeq(decrease_pct(product), 10) THEN "HIGH" ELSE "MEDIUM")
            IN  MapSeq(FilterSeq(Keys(prev_snapshot), flagged), make)
    IN  Concat([k \in 1..(Len(sorted_data) - 1) |-> ofPair(k + 1)])

ShrinkInit ==
    /\ pc = "detect_shrinkage"
    /\ \E n \in 0..MaxSnapshots : inventory_input \in InventoryInputs(n)
    /\ threshold \in Thresholds
    /\ shrinkage_detected = <<>>
    /\ pos_input = <<>> /\ tolerance = 0 /\ discrepancies = <<>>
    /\ time_window = DefaultWindow
    /\ all_reports = <<>>
    /\ correlated_events = <<>>
    /\ events = <<>>
    /\ all_events = <<>>
    /\ OthersIdle
    /\ ScorerIdle

\* shrinkage_detector.detect_shrinkage_events(df)
DetectShrinkage ==
    /\ pc = "detect_shrinkage"
    /\ shrinkage_detected' =
          InventoryShrinkageDetector_detect_shrinkage_events(inventory_input, threshold)
    /\ pc' = "shrinkage_detected"
    /\ UNCHANGED <<otherVars, time_window, all_reports, correlated_events, events, all_events,
                   scorerVars, inventory_input, threshold, pos_input, tolerance,
                   discrepancies>>

\* simple_inventory_analysis: detect_shrinkage_events(data, threshold)
SimpleDetectShrinkage ==
    /\ pc = "detect_shrinkage"
    /\ shrinkage_detected' = simple_detect_shrinkage_events(inventory_input, threshold)
    /\ pc' = "simple_shrinkage_detected"
    /\ UNCHANGED <<otherVars, time_window, all_reports, correlated_events, events, all_events,
                   scorerVars, inventory_input, threshold, pos_input, tolerance,
                   discrepancies>>

\* enhanced_master_analysis: analyze_inventory_shrinkage(inventory_data)
AnalyzeInventoryShrinkage ==
    /\ pc = "detect_shrinkage"
    /\ shrinkage_detected' = analyze_inventory_shrinkage(inventory_input)
    /\ pc' = "enhanced_shrinkage_detected"
    /\ UNCHANGED <<otherVars, time_window, all_reports, correlated_events, events, all_events,
                   scorerVars, inventory_input, threshold, pos_input, tolerance,
                   discrepancies>>

ShrinkNext == DetectShrinkage \/ SimpleDetectShrinkage \/ AnalyzeInventoryShrinkage

SpecShrink == ShrinkInit /\ [][ShrinkNext]_vars

\* the events detected for product at snapshot i
DetectedFor(i, product) ==
    {k \in 1..Len(shrinkage_detected) :
        /\ shrinkage_detected[k].timestamp = inventory_input[i].timestamp
        /\ shrinkage_detected[k].product = product}

\* C7: a detector that is given a threshold T emits, for two adjacent
\* snapshots and a product they list with a positive previous quantity, one
\* event if (prev_qty - curr_qty) / prev_qty * 100 >= T and none otherwise.
C7_FlaggedFromThreshold ==
    pc \in {"shrinkage_detected", "simple_shrinkage_detected"} =>
        \A i \in 2..Len(inventory_input) :
        \A product \in DOMAIN inventory_input[i - 1].data
                          \cap DOMAIN inventory_input[i].data :
            LET prev_qty == inventory_input[i - 1].data[product]
                curr_qty == inventory_input[i].data[product]
            IN  prev_qty > 0 =>
                   Cardinality(DetectedFor(i, product))
                      = IF (prev_qty - curr_qty) * 100 >= threshold * prev_qty
                        THEN 1 ELSE 0

\* the input of two snapshots of product A alone
TwoSnapshots(prev_qty, curr_qty) ==
    <<[timestamp |-> <<0, 1>>, data |-> [A |-> prev_qty]],
      [timestamp |-> <<0, 2>>, data |-> [A |-> curr_qty]]>>

\* C8: with the threshold 3.0 an emitted shrinkage event is HIGH if its
\* decrease is 10 percent or more and MEDIUM otherwise; 100 then 91 gives one
\* MEDIUM event and 100 then 80 one HIGH event.
C8_HighFromTenPercent ==
    (\/ pc = "enhanced_shrinkage_detected"
     \/ /\ pc \in {"shrinkage_detected", "simple_shrinkage_detected"}
        /\ threshold = DefaultThreshold) =>
        /\ \A k \in 1..Len(shrinkage_detected) :
              LET e == shrinkage_detected[k]
              IN  e.severity =
                     IF (e.previous_qty - e.current_qty) * 100 >= 10 * e.previous_qty
                     THEN "HIGH" ELSE "MEDIUM"
        /\ inventory_input = TwoSnapshots(100, 91) =>
              Len(shrinkage_detected) = 1 /\ shrinkage_detected[1].severity = "MEDIUM"
        /\ inventory_input = TwoSnapshots(100, 80) =>
              Len(shrinkage_detected) = 1 /\ shrinkage_detected[1].severity = "HIGH"

\* C20: no shrinkage detector emits an event for a product that the previous
\* or the current snapshot does not list; a missing product is not counted as
\* a quantity of zero.
C20_AbsentProductSkipped ==
    pc \in {"shrinkage_detected", "simple_shrinkage_detected",
            "enhanced_shrinkage_detected"} =>
        \A k \in 1..Len(shrinkage_detected) :
            LET e == shrinkage_detected[k]
                i == CHOOSE j \in 1..Len(inventory_input) :
                        inventory_input[j].timestamp = e.timestamp
            IN  /\ i > 1
                /\ e.product \in DOMAIN inventory_input[i - 1].data
                /\ e.product \in DOMAIN inventory_input[i].data

(***************************************************************************)
(* The weight-discrepancy detectors                                        *)
(***************************************************************************)
\* transactions in one input
MaxTransactions == 2
\* tolerances a detector is given: the default and a wider one
DefaultTolerance == 15
Tolerances == {DefaultTolerance, 50}
\* weights in grams
ExpectedWeights == {0, 1500}
ActualWeights == {0, 1275, 1500, 1725, 2000, 2250, 3000}
ScannedWeights == {0, 460, 600, 800, 1500, 1725, 2000, 2250, 3000}
Skus == {"PRD_F_01", "PRD_Z_01", ""}
ProductNames == {"Coca-Cola (1.5L)", "Water (1L)"}

\* the rows of a transactions frame; a weight the row lacks is NaN
TransactionRows(i) ==
    {[timestamp |-> <<0, i>>, customer_id |-> "C001", station_id |-> "SCC1",
      sku |-> "PRD_B_01", product_name |-> "Coca-Cola (1.5L)", price |-> 280]
        @@ e @@ a : e \in Optional("expected_weight", ExpectedWeights),
                    a \in Optional("actual_weight", ActualWeights)}

\* the lines of pos_transactions.jsonl
PosRecords(i) ==
    {[timestamp |-> <<0, i>>, station_id |-> "SCC1",
      data |-> [customer_id |-> "C001", sku |-> sku, product_name |-> name,
                price |-> 280, weight_g |-> w]] :
        sku \in Skus, name \in ProductNames, w \in ScannedWeights}

\* the inputs of n elements of S in the order of their timestamps
InputsOf(S(_), n) ==
    {[i \in 1..n |-> [s[i] EXCEPT !.timestamp = <<0, i>>]] : s \in [1..n -> S(1)]}

\* the comparison with the tolerance made inclusive
IsWeightDiscrepancy_Inclusive(transaction, T) ==
    /\ "actual_weight" \in DOMAIN transaction
    /\ "expected_weight" \in DOMAIN transaction
    /\ transaction.expected_weight > 0
    /\ PctGeq(Percentage(Abs(transaction.actual_weight - transaction.expected_weight),
                         transaction.expected_weight), T)

\* the transaction is appended: neither weight is NaN, expected > 0 and
\* weight_diff_pct > tolerance
IsWeightDiscrepancy(transaction, T) ==
    /\ "actual_weight" \in DOMAIN transaction
    /\ "expected_weight" \in DOMAIN transaction
    /\ transaction.expected_weight > 0
    /\ PctGt(Percentage(Abs(transaction.actual_weight - transaction.expected_weight),
                        transaction.expected_weight), T)

\* WeightDiscrepancyDetector.detect_weight_discrepancies
WeightDiscrepancyDetector_detect_weight_discrepancies(transactions_df, T) ==
    LET flagged(transaction) == IsWeightDiscrepancy(transaction, T)
        make(transaction) ==
            LET expected == transaction.expected_weight
                actual == transaction.actual_weight
                weight_diff_pct == Percentage(Abs(actual - expected), expected)
            IN  [timestamp |-> transaction.timestamp,
                 customer_id |-> transaction.customer_id,
                 station_id |-> transaction.station_id,
                 sku |-> transaction.sku,
                 product_name |-> transaction.product_name,
                 expected_weight |-> expected,
                 actual_weight |-> actual,
                 weight_difference_pct |-> weight_diff_pct,
                 price |-> transaction.price,
                 severity |-> IF PctGt(weight_diff_pct, 50) THEN "HIGH" ELSE "MEDIUM"]
    IN  MapSeq(FilterSeq(transactions_df, flagged), make)

\* enhanced_master_analysis: the expected weight of each product category
expected_weights ==
    [PRD_F |-> 400, PRD_B |-> 500, PRD_A |-> 100, PRD_S |-> 200,
     PRD_V |-> 300, PRD_H |-> 150, PRD_C |-> 250, PRD_T |-> 300]

\* sku.split('_')[1] exists
HasCategory(sku) == sku # ""

\* sku.split('_')[0] + '_' + sku.split('_')[1]
Category(sku) ==
    CASE sku = "PRD_F_01" -> "PRD_F"
      [] sku = "PRD_B_01" -> "PRD_B"
      [] sku = "PRD_Z_01" -> "PRD_Z"

\* enhanced_master_analysis.analyze_pos_transactions; a transaction whose SKU has
\* no category raises inside the try block and is passed over
analyze_pos_transactions(pos_data) ==
    LET expected_weight(transaction) ==
            Get(expected_weights, Category(transaction.data.sku), 300)
        weight_diff_pct(transaction) ==
            Percentage(Abs(transaction.data.weight_g - expected_weight(transaction)),
                       expected_weight(transaction))
        flagged(transaction) ==
            /\ HasCategory(transaction.data.sku)
            /\ transaction.data.weight_g > 0
            /\ PctGt(weight_diff_pct(transaction), 15)
        make(transaction) ==
            [timestamp |-> transaction.timestamp,
             sku |-> transaction.data.sku,
             expected_weight |-> expected_weight(transaction),
             actual_weight |-> transaction.data.weight_g,
             discrepancy_percentage |-> weight_diff_pct(transaction),
             severity |-> "MEDIUM"]
    IN  MapSeq(FilterSeq(pos_data, flagged), make)

\* simple_pos_analysis.detect_weight_discrepancies
simple_detect_weight_discrepancies(data, T) ==
    LET weight_diff_pct(record) ==
            Percentage(Abs(record.data.weight_g - 1500), 1500)
        flagged(record) ==
            /\ record.data.weight_g > 0
            /\ record.data.product_name = "Coca-Cola (1.5L)"
            /\ record.data.weight_g # 1500
            /\ PctGt(weight_diff_pct(record), T)
        make(record) ==
            [timestamp |-> record.timestamp,
             customer_id |-> record.data.customer_id,
             station_id |-> record.station_id,
             product_name |-> record.data.product_name,
             expected_weight |-> 1500,
             actual_weight |-> record.data.weight_g,
             weight_difference_pct |-> weight_diff_pct(record),
             severity |-> IF PctGt(weight_diff_pct(record), 50) THEN "HIGH" ELSE "MEDIUM"]
    IN  MapSeq(FilterSeq(data, flagged), make)

WeightInit ==
    /\ \E n \in 0..MaxTransactions :
          \/ pc = "detect_weight" /\ pos_input \in InputsOf(TransactionRows, n)
          \/ pc = "analyze_pos" /\ pos_input \in InputsOf(PosRecords, n)
    /\ tolerance \in Tolerances
    /\ discrepancies = <<>>
    /\ inventory_input = <<>> /\ threshold = 0 /\ shrinkage_detected = <<>>
    /\ time_window = DefaultWindow
    /\ all_reports = <<>>
    /\ correlated_events = <<>>
    /\ events = <<>>
    /\ all_events = <<>>
    /\ OthersIdle
    /\ ScorerIdle

\* weight_detector.detect_weight_discrepancies(df)
DetectWeightDiscrepancies ==
    /\ pc = "detect_weight"
    /\ discrepancies' =
          WeightDiscrepancyDetector_detect_weight_discrepancies(pos_input, tolerance)
    /\ pc' = "weights_detected"
    /\ UNCHANGED <<otherVars, time_window, all_reports, correlated_events, events, all_events,
                   scorerVars, inventory_input, threshold, shrinkage_detected,
                   pos_input, tolerance>>

\* enhanced_master_analysis: analyze_pos_transactions(pos_data)
AnalyzePosTransactions ==
    /\ pc = "analyze_pos"
    /\ discrepancies' = analyze_pos_transactions(pos_input)
    /\ pc' = "enhanced_weights_detected"
    /\ UNCHANGED <<otherVars, time_window, all_reports, correlated_events, events, all_events,
                   scorerVars, inventory_input, threshold, shrinkage_detected,
                   pos_input, tolerance>>

\* simple_pos_analysis: detect_weight_discrepancies(data, tolerance)
SimpleDetectWeightDiscrepancies ==
    /\ pc = "analyze_pos"
    /\ discrepancies' = simple_detect_weight_discrepancies(pos_input, tolerance)
    /\ pc' = "simple_weights_detected"
    /\ UNCHANGED <<otherVars, time_window, all_reports, correlated_events, events, all_events,
                   scorerVars, inventory_input, threshold, shrinkage_detected,
                   pos_input, tolerance>>

WeightNext ==
    \/ DetectWeightDiscrepancies
    \/ AnalyzePosTransactions
    \/ SimpleDetectWeightDiscrepancies

SpecWeight == WeightInit /\ [][WeightNext]_vars

\* the events detected for transaction i
DiscrepanciesFor(i) ==
    {k \in 1..Len(discrepancies) : discrepancies[k].timestamp = pos_input[i].timestamp}

\* both weights of the row are numbers
HasWeights(row) == {"expected_weight", "actual_weight"} \subseteq DOMAIN row

\* C9: WeightDiscrepancyDetector with tolerance T emits one event for a
\* transaction if expected_weight > 0 and
\* |actual_weight - expected_weight| / expected_weight * 100 > T, and none
\* otherwise; with T = 15 and 1500 g expected, 1500 g and 1725 g (15 percent)
\* give no event and 2000 g gives one.
C9_FlaggedAboveTolerance ==
    pc = "weights_detected" =>
        \A i \in 1..Len(pos_input) :
            LET row == pos_input[i]
                emitted == Cardinality(DiscrepanciesFor(i))
            IN  /\ emitted =
                      IF /\ HasWeights(row)
                         /\ row.expected_weight > 0
                         /\ (IF row.actual_weight >= row.expected_weight
                              THEN row.actual_weight - row.expected_weight
                              ELSE row.expected_weight - row.actual_weight) * 100
                                > tolerance * row.expected_weight
                      THEN 1 ELSE 0
                /\ (/\ tolerance = 15
                     /\ HasWeights(row)
                     /\ row.expected_weight = 1500) =>
                       /\ row.actual_weight \in {1500, 1725, 1275} => emitted = 0
                       /\ row.actual_weight = 2000 => emitted = 1

\* the detector with tolerance 15 was given a transaction of exactly 15
\* percent and one of 33.3 percent, and flagged the second alone
C9_Witness ==
    /\ pc = "weights_detected"
    /\ tolerance = 15
    /\ Len(pos_input) = 2
    /\ HasWeights(pos_input[1]) /\ HasWeights(pos_input[2])
    /\ pos_input[1].expected_weight = 1500 /\ pos_input[1].actual_weight = 1725
    /\ pos_input[2].expected_weight = 1500 /\ pos_input[2].actual_weight = 2000
    /\ Len(discrepancies) = 1
    /\ discrepancies[1].timestamp = pos_input[2].timestamp

\* C10: in every variant an emitted weight-discrepancy candidate is HIGH if its
\* discrepancy is above 50 percent of the expected weight and MEDIUM otherwise.
C10_HighAboveFiftyPercent ==
    pc \in {"weights_detected", "enhanced_weights_detected", "simple_weights_detected"} =>
        \A k \in 1..Len(discrepancies) :
            LET e == discrepancies[k]
                diff == IF e.actual_weight >= e.expected_weight
                        THEN e.actual_weight - e.expected_weight
                        ELSE e.expected_weight - e.actual_weight
            IN  e.severity = IF diff * 100 > 50 * e.expected_weight
                             THEN "HIGH" ELSE "MEDIUM"

(***************************************************************************)
(* generate_events_jsonl on the reports of a whole run, with two stations  *)
(* and with the candidate lists the report generators compile              *)
(***************************************************************************)
MaxCandidates == 2

\* an event of ScannerAvoidanceDetector.detect_scanner_avoidance
ScannerAvoidance(t, s) ==
    [timestamp |-> t, station_id |-> s, time_gap_seconds |-> 120,
     previous_low_confidence_count |-> 2,
     suspected_reason |-> "SCANNER_AVOIDANCE_AFTER_LOW_CONFIDENCE"]

\* a suspicious movement of RFIDMovementTracker.track_tag_movements
SuspiciousMovement(t) ==
    [epc |-> "E280116060000000000000A1", sku |-> "PRD_B_01",
     reason |-> "RAPID_BACK_AND_FORTH", timestamp |-> t]

AssembleWeightDiscrepancies == WeightDiscrepancies(RunTimes, Stations, {40, 120})
AssembleBarcodeSwaps == BarcodeSwaps(RunTimes, Stations)
AssembleLowConfidenceEvents == LowConfidenceEvents(RunTimes, Stations, {30, 60})
AssembleDwellAnomalies == DwellAnomalies(RunTimes, Stations, {400, 700})
AssembleScannerAvoidances == {ScannerAvoidance(t, s) : t \in RunTimes, s \in Stations}
AssembleSuspiciousMovements == {SuspiciousMovement(t) : t \in RunTimes}

\* the report each generator compiles, reduced to its candidate lists
InventoryReport(shrinkage_events) == [shrinkage_events |-> shrinkage_events]
PosReport(weight_discrepancies, barcode_suspicious) ==
    [weight_discrepancies |-> weight_discrepancies,
     suspected_barcode_swapping |-> barcode_suspicious]
RecognitionReport(low_confidence_events, avoidance_events) ==
    [low_confidence_events |-> low_confidence_events,
     scanner_avoidance_events |-> avoidance_events]
QueueReport(dwell_anomalies) == [dwell_time_anomalies |-> dwell_anomalies]
RfidReport(suspicious_movements) ==
    [movement_analysis |-> [suspicious_movements |-> suspicious_movements],
     summary |-> [rfid_detection_rate |-> 100, security_incidents |-> 0,
                  suspicious_movements |-> Len(suspicious_movements)]]

\* 'analysis_timestamp': datetime.now().isoformat() in every report; the clock
\* is read as the number of the run
Dated(reports, now) ==
    [stream \in DOMAIN reports |-> ("analysis_timestamp" :> now) @@ reports[stream]]

\* the reports of a run in which the five analyses succeeded and produced at
\* most MaxCandidates candidates together
AssembleInit ==
    /\ pc = "assemble"
    /\ time_window = DefaultWindow
    /\ \E a \in SeqsUpTo(RunShrinkageEvents, MaxCandidates) :
       \E b \in SeqsUpTo(AssembleWeightDiscrepancies, MaxCandidates - Len(a)) :
       \E c \in SeqsUpTo(AssembleBarcodeSwaps, MaxCandidates - Len(a) - Len(b)) :
       \E d \in SeqsUpTo(AssembleLowConfidenceEvents,
                         MaxCandidates - Len(a) - Len(b) - Len(c)) :
       \E e \in SeqsUpTo(AssembleScannerAvoidances,
                         MaxCandidates - Len(a) - Len(b) - Len(c) - Len(d)) :
       \E f \in SeqsUpTo(AssembleDwellAnomalies,
                         MaxCandidates - Len(a) - Len(b) - Len(c) - Len(d) - Len(e)) :
       \E g \in SeqsUpTo(AssembleSuspiciousMovements,
                         MaxCandidates - Len(a) - Len(b) - Len(c) - Len(d) - Len(e)
                             - Len(f)) :
          all_reports = Dated([inventory |-> InventoryReport(a),
                               pos |-> PosReport(b, c),
                               recognition |-> RecognitionReport(d, e),
                               queue |-> QueueReport(f),
                               rfid |-> RfidReport(g)], 1)
    /\ correlated_events = <<>>
    /\ events = <<>>
    /\ all_events = <<>>
    /\ runs = 1
    /\ previous_events = <<>>
    /\ ended = {"inventory", "pos", "recognition", "queue", "rfid"}
    /\ EnhancedIdle
    /\ AnalysisIdle
    /\ ScorerIdle
    /\ DetectorsIdle

\* main after run_all_analyses: correlate, then generate_events_jsonl
Assemble ==
    /\ pc = "assemble"
    /\ correlated_events' = correlate_events(all_reports, time_window)
    /\ events' = generate_events_jsonl(all_reports, time_window)
    /\ pc' = "assembled"
    /\ UNCHANGED <<otherVars, time_window, all_reports, all_events, scorerVars, detectorVars>>

\* the script started once more on the same files: the generators compile the
\* same candidate lists into reports dated anew
RunAgain ==
    /\ pc = "assembled"
    /\ runs = 1
    /\ runs' = 2
    /\ previous_events' = events
    /\ all_reports' = Dated(all_reports, 2)
    /\ correlated_events' = <<>>
    /\ events' = <<>>
    /\ pc' = "assemble"
    /\ UNCHANGED <<ended, enhancedVars, analysisVars, time_window, all_events, scorerVars, detectorVars>>

AssembleNext == Assemble \/ RunAgain

SpecAssemble == AssembleInit /\ [][AssembleNext]_vars

\* the candidates of a list, as a set
Members(s) == {s[i] : i \in 1..Len(s)}

\* the candidate lists of the collected reports
ReportedShrinkage == all_reports["inventory"]["shrinkage_events"]
ReportedWeight == all_reports["pos"]["weight_discrepancies"]
ReportedBarcode == all_reports["pos"]["suspected_barcode_swapping"]

\* the event e carries the timestamp and the station of the candidate c
FromCandidate(e, c) == e.timestamp = c.timestamp /\ e.location = c.station_id

\* C12: every event generate_events_jsonl returns has a severity among low,
\* medium and high, the confidence fixed for its type (0.8 shrinkage, 0.85
\* weight, 0.75 barcode, 0.6 scanner avoidance, 0.5 checkout difficulty, 0.9
\* for a HIGH-confidence and 0.7 for a MEDIUM-confidence correlated event),
\* which lies in [0, 1], and the location STORE_FLOOR exactly if it is an
\* INVENTORY_SHRINKAGE and otherwise the station of a contributing candidate.
C12_FinalEventSchema ==
    pc = "assembled" =>
        \A i \in 1..Len(events) :
            LET e == events[i]
            IN  /\ e.severity \in {"low", "medium", "high"}
                /\ e.confidence >= 0 /\ e.confidence <= 100
                /\ (e.location = "STORE_FLOOR") <=> (e.event_type = "INVENTORY_SHRINKAGE")
                /\ CASE e.event_type = "INVENTORY_SHRINKAGE" ->
                            /\ e.confidence = 80
                            /\ \E c \in Members(ReportedShrinkage) :
                                  /\ e.timestamp = c.timestamp
                                  /\ e.metadata.product_sku = c.product
                     [] e.event_type = "WEIGHT_DISCREPANCY" ->
                            /\ e.confidence = 85
                            /\ \E c \in Members(ReportedWeight) :
                                  /\ FromCandidate(e, c)
                                  /\ e.metadata.actual_weight = c.actual_weight
                     [] e.event_type = "BARCODE_SWITCHING" ->
                            /\ e.confidence = 75
                            /\ \E c \in Members(ReportedBarcode) : FromCandidate(e, c)
                     [] e.event_type = "SCANNER_AVOIDANCE" ->
                            /\ e.confidence = 60
                            /\ \E c \in Members(ReportedLowConfidence) :
                                  /\ FromCandidate(e, c)
                                  /\ e.metadata.recognition_confidence = c.confidence
                     [] e.event_type = "CHECKOUT_DIFFICULTY" ->
                            /\ e.confidence = 50
                            /\ \E c \in Members(ReportedDwellAnomalies) :
                                  /\ FromCandidate(e, c)
                                  /\ e.metadata.dwell_time = c.dwell_time
                     [] OTHER ->
                            \E c \in Members(correlated_events) :
                               /\ c.event_type = e.event_type
                               /\ FromCandidate(e, c)
                               /\ e.metadata = c.evidence
                               /\ e.confidence = IF c.confidence = "HIGH" THEN 90 ELSE 70
                               /\ \/ /\ c.event_type = "CORRELATED_FRAUD_ATTEMPT"
                                     /\ \E p \in Members(ReportedWeight) :
                                           FromCandidate(e, p)
                                  \/ /\ c.event_type = "CUSTOMER_DIFFICULTY_WITH_FRAUD"
                                     /\ \E q \in Members(ReportedDwellAnomalies) :
                                           FromCandidate(e, q)

\* a dwell anomaly at SCC2 and a weight discrepancy at SCC2 gave a checkout
\* difficulty, a medium-confidence correlated event and a weight event, all
\* located at SCC2
C12_Witness ==
    /\ pc = "assembled"
    /\ Len(events) = 3
    /\ \A i \in 1..3 : events[i].location = "SCC2"
    /\ \E i, j, k \in 1..3 :
          /\ events[i].event_type = "CHECKOUT_DIFFICULTY" /\ events[i].confidence = 50
          /\ events[j].event_type = "CUSTOMER_DIFFICULTY_WITH_FRAUD"
          /\ events[j].confidence = 70
          /\ events[k].event_type = "WEIGHT_DISCREPANCY" /\ events[k].confidence = 85

ReportedScannerAvoidance == all_reports["recognition"]["scanner_avoidance_events"]
ReportedSuspiciousMovements ==
    all_reports["rfid"]["movement_analysis"]["suspicious_movements"]

\* the final events that are not correlated events
Standalone ==
    {i \in 1..Len(events) :
        events[i].event_type \notin {"CORRELATED_FRAUD_ATTEMPT",
                                     "CUSTOMER_DIFFICULTY_WITH_FRAUD"}}

\* the candidates of the list s that satisfy neither stated filter
Kept(s) == Cardinality({i \in 1..Len(s) : s[i].severity = "HIGH"})

\* C13: every candidate of every detector of a run is in the final list
\* exactly once unless a stated filter removes it (a recognition candidate
\* that is not HIGH, a dwell anomaly not above 600 s): every shrinkage,
\* weight-discrepancy and barcode-swap candidate gives exactly one event, and
\* the candidates of no detector are left out altogether.
C13_NoSilentDrops ==
    pc = "assembled" =>
        /\ Cardinality(EventsOfType("INVENTORY_SHRINKAGE")) = Len(ReportedShrinkage)
        /\ Cardinality(EventsOfType("WEIGHT_DISCREPANCY")) = Len(ReportedWeight)
        /\ Cardinality(EventsOfType("BARCODE_SWITCHING")) = Len(ReportedBarcode)
        /\ Cardinality(Standalone) =
               Len(ReportedShrinkage) + Len(ReportedWeight) + Len(ReportedBarcode)
             + Kept(ReportedLowConfidence) + Kept(ReportedDwellAnomalies)
             + Len(ReportedScannerAvoidance) + Len(ReportedSuspiciousMovements)

MaxLines == 3

\* a line of a .jsonl file: the text of a JSON object, or text that is not JSON
JsonLine(record) == [valid |-> TRUE, value |-> record]
Malformed == [valid |-> FALSE]

\* json.loads(line), which raises on a line that is not JSON
json_loads(line) == line.value

\* the loop of each loader inside its try block: any exception ends it and the
\* loader returns []
LoadJsonl(lines) ==
    IF \A i \in 1..Len(lines) : lines[i].valid
    THEN [i \in 1..Len(lines) |-> json_loads(lines[i])]
    ELSE <<>>

load_inventory_data(lines) == LoadJsonl(lines)
load_pos_data(lines) == LoadJsonl(lines)
load_product_recognition_data(lines) == LoadJsonl(lines)
load_queue_data(lines) == LoadJsonl(lines)

\* what the files can hold
InventoryLines ==
    {Malformed} \cup
    {JsonLine([timestamp |-> t, data |-> [A |-> q]]) :
        t \in RunTimes, q \in {100, 90, 0, -1}}
PosLines ==
    {Malformed} \cup
    {JsonLine([timestamp |-> t, station_id |-> "SCC1",
               data |-> [customer_id |-> "C001", sku |-> "PRD_B_01",
                         product_name |-> "Coca-Cola (1.5L)", price |-> 280,
                         weight_g |-> w]]) : t \in RunTimes, w \in {500, 1500}}
RecognitionLines ==
    {Malformed} \cup
    {JsonLine(RecognitionRecord(t, "SCC1", a)) : t \in RunTimes, a \in {30, 90}}
QueueLines ==
    {Malformed} \cup {JsonLine(QueueRecord(t, "SCC1", 2, 400)) : t \in RunTimes}

\* enhanced_master_analysis.analyze_product_recognition
analyze_product_recognition(recognition_data) ==
    LET flagged(event) == event.data.accuracy < 70
        make(event) ==
            [timestamp |-> event.timestamp,
             predicted_product |-> event.data.predicted_product,
             confidence |-> event.data.accuracy,
             severity |-> IF event.data.accuracy > 50 THEN "LOW" ELSE "MEDIUM"]
    IN  MapSeq(FilterSeq(recognition_data, flagged), make)

\* enhanced_master_analysis.analyze_queue_behavior
analyze_queue_behavior(queue_data) ==
    LET flagged(event) ==
            event.data.average_dwell_time > 300 /\ event.data.customer_count > 0
        make(event) ==
            [timestamp |-> event.timestamp,
             station_id |-> event.station_id,
             dwell_time |-> event.data.average_dwell_time,
             customer_count |-> event.data.customer_count,
             severity |-> "MEDIUM"]
    IN  MapSeq(FilterSeq(queue_data, flagged), make)

\* {**event, "event_type": type}
Typed(event, type) == ("event_type" :> type) @@ event

\* all_events as main extends it, stream after stream
EnhancedEvents(shrinkage_events, weight_discrepancies, low_confidence_events, dwell_anomalies) ==
    [i \in 1..Len(shrinkage_events) |-> Typed(shrinkage_events[i], "INVENTORY_SHRINKAGE")]
        \o [i \in 1..Len(weight_discrepancies) |->
                Typed(weight_discrepancies[i], "WEIGHT_DISCREPANCY")]
        \o [i \in 1..Len(low_confidence_events) |->
                Typed(low_confidence_events[i], "LOW_CONFIDENCE")]
        \o [i \in 1..Len(dwell_anomalies) |-> Typed(dwell_anomalies[i], "DWELL_ANOMALY")]

EnhancedInit ==
    /\ pc = "enhanced_main"
    /\ \E a \in SeqsUpTo(InventoryLines, MaxLines) :
       \E b \in SeqsUpTo(PosLines, MaxLines - Len(a)) :
       \E c \in SeqsUpTo(RecognitionLines, MaxLines - Len(a) - Len(b)) :
       \E d \in SeqsUpTo(QueueLines, MaxLines - Len(a) - Len(b) - Len(c)) :
          input_files = [inventory_snapshots |-> a, pos_transactions |-> b,
                         product_recognition |-> c, queue_monitoring |-> d]
    /\ events_jsonl = <<>>
    /\ AnalysisIdle
    /\ RerunIdle
    /\ ended = {}
    /\ time_window = DefaultWindow
    /\ all_reports = <<>>
    /\ correlated_events = <<>>
    /\ events = <<>>
    /\ all_events = <<>>
    /\ ScorerIdle
    /\ DetectorsIdle

\* analyze_inventory_shrinkage reaches (prev_qty - curr_qty) / prev_qty with
\* prev_qty = 0, which raises ZeroDivisionError
DividesByZero(inventory_data) ==
    LET sorted_data == SortByTimestamp(inventory_data)
    IN  \E i \in 2..Len(sorted_data) :
        \E product \in DOMAIN sorted_data[i - 1].data \cap DOMAIN sorted_data[i].data :
            /\ sorted_data[i].data[product] < sorted_data[i - 1].data[product]
            /\ sorted_data[i - 1].data[product] = 0

\* main: each stream loaded and analysed in turn, then all_events written.  An
\* exception raised by analyze_inventory_shrinkage is caught nowhere: the
\* script ends there, before anything is written.
EnhancedMain ==
    /\ pc = "enhanced_main"
    /\ LET inventory_data == load_inventory_data(input_files.inventory_snapshots)
           shrinkage_events == analyze_inventory_shrinkage(inventory_data)
           pos_data == load_pos_data(input_files.pos_transactions)
           weight_discrepancies == analyze_pos_transactions(pos_data)
           recognition_data == load_product_recognition_data(input_files.product_recognition)
           low_confidence_events == analyze_product_recognition(recognition_data)
           queue_data == load_queue_data(input_files.queue_monitoring)
           dwell_anomalies == analyze_queue_behavior(queue_data)
       IN  IF DividesByZero(inventory_data)
           THEN /\ inventory_input' = inventory_data
                /\ UNCHANGED <<shrinkage_detected, pos_input, discrepancies, events_jsonl>>
                /\ pc' = "enhanced_crashed"
           ELSE /\ inventory_input' = inventory_data
                /\ shrinkage_detected' = shrinkage_events
                /\ pos_input' = pos_data
                /\ discrepancies' = weight_discrepancies
                /\ events_jsonl' = EnhancedEvents(shrinkage_events, weight_discrepancies,
                                                  low_confidence_events, dwell_anomalies)
                /\ pc' = "enhanced_done"
    /\ UNCHANGED <<rerunVars, ended, input_files, analysisVars, time_window, all_reports,
                   correlated_events, events, all_events, scorerVars, threshold,
                   tolerance>>

EnhancedNext == EnhancedMain

SpecEnhanced == EnhancedInit /\ [][EnhancedNext]_vars

\* C16: the events enhanced_master_analysis.main writes to output/events.jsonl
\* are in ascending order of timestamp, whatever the inputs.
C16_EnhancedOutputSorted ==
    pc = "enhanced_done" => IsSorted(events_jsonl)

\* the records of the lines that parse, in the order of the lines
WellFormedRecords(lines) ==
    LET valid(line) == line.valid
    IN  MapSeq(FilterSeq(lines, valid), json_loads)

\* C17: a line that does not parse as JSON costs that record alone: every
\* other record of the file is loaded and handed to the detector of the
\* stream.
C17_OnlyBadRecordSkipped ==
    pc = "enhanced_done" =>
        /\ inventory_input = WellFormedRecords(input_files.inventory_snapshots)
        /\ pos_input = WellFormedRecords(input_files.pos_transactions)
        /\ shrinkage_detected =
              analyze_inventory_shrinkage(WellFormedRecords(input_files.inventory_snapshots))
        /\ discrepancies =
              analyze_pos_transactions(WellFormedRecords(input_files.pos_transactions))

\* C18: no detector raises a division-by-zero error, whatever integer
\* quantities and weights it is given; a previous quantity of zero and an
\* expected weight of zero give no event.
C18_DivisionGuard ==
    /\ pc # "enhanced_crashed"
    /\ pc = "enhanced_done" =>
          /\ \A k \in 1..Len(shrinkage_detected) : shrinkage_detected[k].previous_qty # 0
          /\ \A k \in 1..Len(discrepancies) : discrepancies[k].expected_weight # 0

(***************************************************************************)
(* From the files to the correlator: generate_pos_analysis_report and      *)
(* generate_recognition_analysis_report, then correlate_events.  Here a    *)
(* timestamp carries the type of the Python value.                         *)
(***************************************************************************)
\* the string "2025-08-13T16:MM:SS" of an input line, and a pandas Timestamp
Str(at) == [type |-> "str", at |-> at]
Timestamp(at) == [type |-> "Timestamp", at |-> at]

\* pd.to_datetime on a column of strings
pd_to_datetime(ts) == Timestamp(ts.at)

\* the lines of pos_transactions.jsonl; actual_weight_g is optional
PosReportLines ==
    {JsonLine([timestamp |-> Str(t), station_id |-> "SCC1", status |-> "Active",
               data |-> ([customer_id |-> "C001", sku |-> "PRD_B_01",
                          product_name |-> "Coca-Cola (1.5L)", barcode |-> "4792024011348",
                          price |-> 280, weight_g |-> 1500] @@ a)]) :
        t \in RunTimes, a \in Optional("actual_weight_g", {1500, 2000})}

\* the lines of product_recognition.jsonl
RecognitionReportLines ==
    {JsonLine([timestamp |-> Str(t), station_id |-> "SCC1", status |-> "Active",
               data |-> [predicted_product |-> "PRD_B_01", accuracy |-> a]]) :
        t \in RunTimes, a \in {30, 90}}

\* df.sort_values('timestamp')
RECURSIVE sort_values(_)
sort_values(df) ==
    IF df = <<>> THEN <<>>
    ELSE LET sorted == sort_values(SubSeq(df, 1, Len(df) - 1))
             row == df[Len(df)]
             k == Cardinality({i \in 1..Len(sorted) :
                                  TsLeq(sorted[i].timestamp.at, row.timestamp.at)})
         IN  SubSeq(sorted, 1, k) \o <<row>> \o SubSeq(sorted, k + 1, Len(sorted))

\* analysis_pos_transactions.load_pos_transactions
load_pos_transactions(lines) ==
    LET transaction(line) ==
            LET record == json_loads(line)
            IN  [timestamp |-> pd_to_datetime(record.timestamp),
                 station_id |-> record.station_id,
                 status |-> record.status,
                 customer_id |-> record.data.customer_id,
                 sku |-> record.data.sku,
                 product_name |-> record.data.product_name,
                 barcode |-> record.data.barcode,
                 price |-> record.data.price,
                 expected_weight |-> record.data.weight_g,
                 actual_weight |-> Get(record.data, "actual_weight_g", record.data.weight_g)]
    IN  sort_values(MapSeq(lines, transaction))

\* analysis_product_recognition.load_product_recognition_data
recognition_load_product_recognition_data(lines) ==
    LET recognition_event(line) ==
            LET record == json_loads(line)
            IN  [timestamp |-> record.timestamp,
                 station_id |-> record.station_id,
                 status |-> record.status,
                 predicted_product |-> record.data.predicted_product,
                 accuracy |-> record.data.accuracy]
    IN  MapSeq(lines, recognition_event)

\* LowConfidenceDetector.detect_low_confidence_predictions; T in hundredths
detect_low_confidence_predictions(recognition_data, T) ==
    LET flagged(record) == record.accuracy < T
        make(record) ==
            [timestamp |-> record.timestamp,
             station_id |-> record.station_id,
             predicted_product |-> record.predicted_product,
             confidence |-> record.accuracy,
             severity |-> IF record.accuracy < 50 THEN "HIGH" ELSE "MEDIUM"]
    IN  MapSeq(FilterSeq(recognition_data, flagged), make)

ConfidenceThreshold == 70

ReportsInit ==
    /\ pc = "pos_report"
    /\ \E b \in SeqsUpTo(PosReportLines, MaxLines) :
       \E c \in SeqsUpTo(RecognitionReportLines, MaxLines - Len(b)) :
          input_files = [pos_transactions |-> b, product_recognition |-> c]
    /\ events_jsonl = <<>>
    /\ AnalysisIdle
    /\ RerunIdle
    /\ ended = {}
    /\ time_window = DefaultWindow
    /\ all_reports = <<>>
    /\ correlated_events = <<>>
    /\ events = <<>>
    /\ all_events = <<>>
    /\ ScorerIdle
    /\ DetectorsIdle

\* generate_pos_analysis_report, reduced to the weight candidates
GeneratePosReport ==
    /\ pc = "pos_report"
    /\ LET df == load_pos_transactions(input_files.pos_transactions)
           weight_discrepancies ==
               WeightDiscrepancyDetector_detect_weight_discrepancies(df, DefaultTolerance)
       IN  /\ pos_input' = df
           /\ tolerance' = DefaultTolerance
           /\ discrepancies' = weight_discrepancies
           /\ all_reports' = Store(all_reports, "pos", PosReport(weight_discrepancies, <<>>))
    /\ ended' = ended \cup {"pos"}
    /\ pc' = "recognition_report"
    /\ UNCHANGED <<rerunVars, enhancedVars, analysisVars, time_window, correlated_events, events,
                   all_events, scorerVars, inventory_input, threshold, shrinkage_detected>>

\* generate_recognition_analysis_report, reduced to the low-confidence candidates
GenerateRecognitionReport ==
    /\ pc = "recognition_report"
    /\ LET recognition_data ==
               recognition_load_product_recognition_data(input_files.product_recognition)
           low_confidence_events ==
               detect_low_confidence_predictions(recognition_data, ConfidenceThreshold)
       IN  all_reports' = Store(all_reports, "recognition",
                                RecognitionReport(low_confidence_events, <<>>))
    /\ ended' = ended \cup {"recognition"}
    /\ pc' = "handover"
    /\ UNCHANGED <<rerunVars, enhancedVars, analysisVars, time_window, correlated_events, events,
                   all_events, scorerVars, detectorVars>>

\* datetime.fromisoformat(value) raises TypeError unless value is a str
FromisoformatRaises(value) == value.type # "str"

\* correlate_events on the reports: the outer loop parses the timestamp of every
\* POS event, the inner loop that of every recognition event
CorrelateReports ==
    /\ pc = "handover"
    /\ LET pos_events == all_reports["pos"]["weight_discrepancies"]
           recognition_events == all_reports["recognition"]["low_confidence_events"]
       IN  IF \/ \E i \in 1..Len(pos_events) : FromisoformatRaises(pos_events[i].timestamp)
              \/ /\ pos_events # <<>>
                 /\ \E j \in 1..Len(recognition_events) :
                       FromisoformatRaises(recognition_events[j].timestamp)
           THEN pc' = "type_error" /\ UNCHANGED correlated_events
           ELSE /\ pc' = "correlated"
                /\ correlated_events' =
                      LET unwrap(e) == [e EXCEPT !.timestamp = e.timestamp.at]
                      IN  CorrelateFraud(MapSeq(pos_events, unwrap),
                                         MapSeq(recognition_events, unwrap), time_window)
    /\ UNCHANGED <<otherVars, time_window, all_reports, events, all_events, scorerVars,
                   detectorVars>>

ReportsNext == GeneratePosReport \/ GenerateRecognitionReport \/ CorrelateReports

SpecReports == ReportsInit /\ [][ReportsNext]_vars

\* C19: every candidate handed to correlate_events and generate_events_jsonl
\* carries its timestamp as an ISO-8601 string, so that
\* datetime.fromisoformat parses it and the timestamps of the streams can be
\* compared with one another.
C19_TimestampsAreIsoStrings ==
    /\ pc = "handover" =>
          \A stream \in DOMAIN all_reports :
          \A key \in DOMAIN all_reports[stream] :
          \A i \in 1..Len(all_reports[stream][key]) :
             all_reports[stream][key][i].timestamp.type = "str"
    /\ pc # "type_error"

(***************************************************************************)
(* The shrinkage detectors behind their loaders, on a file whose snapshots *)
(* are in any order                                                        *)
(***************************************************************************)
\* the quantities of product A in the file
OrderQuantities == {80, 90, 100}

\* the one-to-one maps of 1..n onto itself
Orderings(n) ==
    {p \in [1..n -> 1..n] : \A i \in 1..n : \A j \in 1..n : p[i] = p[j] => i = j}

\* files of n snapshots taken at n different times, the lines in any order
UnorderedInventoryFiles(n) ==
    {[i \in 1..n |-> JsonLine([timestamp |-> <<0, p[i]>>, data |-> [A |-> q[i]]])] :
        p \in Orderings(n), q \in [1..n -> OrderQuantities]}

\* simple_inventory_analysis.load_inventory_data: the records in the order of
\* the lines
simple_load_inventory_data(lines) == [i \in 1..Len(lines) |-> json_loads(lines[i])]

\* analysis_inventory_snapshots.load_inventory_data: a row for each line,
\* df.sort_values('timestamp').  pd.to_datetime keeps the order of the ISO
\* strings, and the detector reads the timestamp only to copy it.
snapshots_load_inventory_data(lines) ==
    SortByTimestamp([i \in 1..Len(lines) |-> json_loads(lines[i])])

OrderInit ==
    /\ pc = "inventory_file"
    /\ \E n \in 0..MaxSnapshots :
          \E lines \in UnorderedInventoryFiles(n) :
             input_files = [inventory_snapshots |-> lines]
    /\ events_jsonl = <<>>
    /\ AnalysisIdle
    /\ RerunIdle
    /\ ended = {}
    /\ time_window = DefaultWindow
    /\ all_reports = <<>>
    /\ correlated_events = <<>>
    /\ events = <<>>
    /\ all_events = <<>>
    /\ ScorerIdle
    /\ DetectorsIdle

\* analysis_inventory_snapshots.generate_inventory_report: load_inventory_data,
\* then InventoryShrinkageDetector(threshold_percentage=3.0)
GenerateInventoryReport ==
    /\ pc = "inventory_file"
    /\ inventory_input' = snapshots_load_inventory_data(input_files.inventory_snapshots)
    /\ threshold' = DefaultThreshold
    /\ shrinkage_detected' =
          InventoryShrinkageDetector_detect_shrinkage_events(inventory_input', threshold')
    /\ pc' = "inventory_report"
    /\ UNCHANGED <<otherVars, time_window, all_reports, correlated_events, events,
                   all_events, scorerVars, pos_input, tolerance,
                   discrepancies>>

\* simple_inventory_analysis.analyze_inventory: load_inventory_data, then
\* detect_shrinkage_events(data, threshold=3.0)
AnalyzeInventory ==
    /\ pc = "inventory_file"
    /\ inventory_input' = simple_load_inventory_data(input_files.inventory_snapshots)
    /\ threshold' = DefaultThreshold
    /\ shrinkage_detected' = simple_detect_shrinkage_events(inventory_input', threshold')
    /\ pc' = "simple_inventory_report"
    /\ UNCHANGED <<otherVars, time_window, all_reports, correlated_events, events,
                   all_events, scorerVars, pos_input, tolerance,
                   discrepancies>>

\* enhanced_master_analysis.main, the inventory stream: load_inventory_data,
\* then analyze_inventory_shrinkage
EnhancedInventory ==
    /\ pc = "inventory_file"
    /\ inventory_input' = load_inventory_data(input_files.inventory_snapshots)
    /\ shrinkage_detected' = analyze_inventory_shrinkage(inventory_input')
    /\ pc' = "enhanced_inventory_report"
    /\ UNCHANGED <<otherVars, time_window, all_reports, correlated_events, events,
                   all_events, scorerVars, threshold, pos_input,
                   tolerance, discrepancies>>

OrderNext == GenerateInventoryReport \/ AnalyzeInventory \/ EnhancedInventory

SpecOrder == OrderInit /\ [][OrderNext]_vars

\* the snapshots of the file in the order of their timestamps
SortedSnapshots == SortByTimestamp(WellFormedRecords(input_files.inventory_snapshots))

\* the shrinkage events of adjacent snapshots in time: (product, timestamp of
\* the later snapshot, the two quantities)
AdjacentShrinkage(T) ==
    {<<"A", SortedSnapshots[i].timestamp,
       SortedSnapshots[i - 1].data.A, SortedSnapshots[i].data.A>> :
        i \in {j \in 2..Len(SortedSnapshots) :
                 (SortedSnapshots[j - 1].data.A - SortedSnapshots[j].data.A) * 100
                     >= T * SortedSnapshots[j - 1].data.A}}

\* C21: whatever the order of the snapshots in the file, loader and detector
\* together compare the snapshots that are adjacent in time: the set of
\* shrinkage events is the one of the file sorted by timestamp.
C21_OrderTolerated ==
    pc \in {"inventory_report", "simple_inventory_report", "enhanced_inventory_report"} =>
        {<<shrinkage_detected[k].product, shrinkage_detected[k].timestamp,
           shrinkage_detected[k].previous_qty, shrinkage_detected[k].current_qty>> :
            k \in 1..Len(shrinkage_detected)}
        = AdjacentShrinkage(DefaultThreshold)

(***************************************************************************)
(* master_analysis: the import block, then run_all_analyses                *)
(***************************************************************************)
\* the statements of the import block, in their order, each with the stream
\* whose try block calls the name and the file the call is given
Imports ==
    <<[module |-> "analysis_inventory_snapshots",
       name |-> "generate_inventory_analysis_report",
       stream |-> "inventory", file |-> "inventory_snapshots.jsonl"],
      [module |-> "analysis_pos_transactions",
       name |-> "generate_pos_analysis_report",
       stream |-> "pos", file |-> "pos_transactions.jsonl"],
      [module |-> "analysis_product_recognition",
       name |-> "generate_recognition_analysis_report",
       stream |-> "recognition", file |-> "product_recognition.jsonl"],
      [module |-> "analysis_queue_monitoring",
       name |-> "generate_queue_analysis_report",
       stream |-> "queue", file |-> "queue_monitoring.jsonl"],
      [module |-> "analysis_rfid_readings",
       name |-> "generate_rfid_analysis_report",
       stream |-> "rfid", file |-> "rfid_readings.jsonl"]>>

\* the report generator that each analysis module defines
ReportGenerator ==
    [analysis_inventory_snapshots |-> "generate_inventory_report",
     analysis_pos_transactions |-> "generate_pos_analysis_report",
     analysis_product_recognition |-> "generate_recognition_analysis_report",
     analysis_queue_monitoring |-> "generate_queue_analysis_report",
     analysis_rfid_readings |-> "generate_rfid_analysis_report"]

AnalysisModules == DOMAIN ReportGenerator
InputFiles == {Imports[i].file : i \in 1..Len(Imports)}

\* "from module import name" binds the name: the module is found and defines it
ImportSucceeds(statement, found) ==
    /\ statement.module \in found
    /\ ReportGenerator[statement.module] = statement.name

\* the try block of the imports: the first statement that raises ImportError
\* ends the block, and the names of the statements before it are bound
ImportBlock(found) ==
    {Imports[i].name :
        i \in {j \in 1..Len(Imports) :
                 \A k \in 1..j : ImportSucceeds(Imports[k], found)}}

\* a file that every line of parses
WellFormed(lines) == \A i \in 1..Len(lines) : lines[i].valid

\* run_all_analyses: a try block for each stream.  The call raises NameError if
\* the name is not bound, and the generator raises if the file is missing or a
\* line of it does not parse; the except clause then leaves reports as it was.
run_all_analyses(names, files) ==
    LET returns(statement) ==
            /\ statement.name \in names
            /\ statement.file \in DOMAIN files
            /\ WellFormed(files[statement.file])
        called == {i \in 1..Len(Imports) : returns(Imports[i])}
        statementOf(stream) == CHOOSE i \in called : Imports[i].stream = stream
    IN  [stream \in {Imports[i].stream : i \in called} |->
            [data_source |-> Imports[statementOf(stream)].file]]

ImportInit ==
    /\ pc = "import"
    /\ importable \in SUBSET AnalysisModules
    /\ imported = {}
    /\ \E present \in SUBSET InputFiles :
          input_files \in [present -> {<<>>, <<Malformed>>}]
    /\ events_jsonl = <<>>
    /\ StreamsIdle
    /\ RerunIdle
    /\ ended = {}
    /\ time_window = DefaultWindow
    /\ all_reports = <<>>
    /\ correlated_events = <<>>
    /\ events = <<>>
    /\ all_events = <<>>
    /\ ScorerIdle
    /\ DetectorsIdle

\* the import block, run when master_analysis is loaded
ImportAnalysisModules ==
    /\ pc = "import"
    /\ imported' = ImportBlock(importable)
    /\ pc' = "run_all_analyses"
    /\ UNCHANGED <<rerunVars, ended, enhancedVars, importable, streamVars, time_window,
                   all_reports, correlated_events, events, all_events, scorerVars,
                   detectorVars>>

\* main: all_reports = run_all_analyses()
RunAllAnalyses ==
    /\ pc = "run_all_analyses"
    /\ all_reports' = run_all_analyses(imported, input_files)
    /\ ended' = StreamNames
    /\ pc' = "analyses_run"
    /\ UNCHANGED <<rerunVars, enhancedVars, analysisVars, time_window,
                   correlated_events, events, all_events, scorerVars, detectorVars>>

ImportNext == ImportAnalysisModules \/ RunAllAnalyses

SpecImport == ImportInit /\ [][ImportNext]_vars

\* C22: with the five analysis modules importable and the five input files
\* present and well-formed, the import block binds the five report generators
\* and run_all_analyses returns a report for each of the five streams.
C22_AllStreamsReported ==
    (/\ importable = AnalysisModules
     /\ DOMAIN input_files = InputFiles
     /\ \A file \in InputFiles : WellFormed(input_files[file])) =>
        /\ pc = "run_all_analyses" =>
              imported = {Imports[i].name : i \in 1..Len(Imports)}
        /\ pc = "analyses_run" => DOMAIN all_reports = StreamNames

(***************************************************************************)
(* The severity of the correlated events that generate_events_jsonl adds   *)
(***************************************************************************)
CorrelatedTypes == {"CORRELATED_FRAUD_ATTEMPT", "CUSTOMER_DIFFICULTY_WITH_FRAUD"}

\* C23: every correlated event in the list generate_events_jsonl returns has
\* severity medium: the score of an event built by correlate_events never
\* exceeds 0.7, so no correlated event is high.
C23_CorrelatedAlwaysMedium ==
    pc = "assembled" =>
        /\ \A i \in 1..Len(correlated_events) :
              calculate_severity_score(correlated_events[i]) <= HighScore
        /\ \A i \in 1..Len(events) :
              events[i].event_type \in CorrelatedTypes => events[i].severity = "medium"

\* a run that correlated a weight discrepancy with a low-confidence recognition:
\* the fraud attempt scored the bonus alone and came out medium
C23_Witness ==
    /\ pc = "assembled"
    /\ \E i \in 1..Len(correlated_events) :
          /\ correlated_events[i].event_type = "CORRELATED_FRAUD_ATTEMPT"
          /\ calculate_severity_score(correlated_events[i]) = CrossCorrelationWeight
    /\ \E i \in 1..Len(events) :
          /\ events[i].event_type = "CORRELATED_FRAUD_ATTEMPT"
          /\ events[i].severity = "medium"

(***************************************************************************)
(* The detectors of the recognition, queue, RFID and POS streams, each on  *)
(* the records it is given                                                 *)
(***************************************************************************)
\* records in one input
MaxRecords == 3

\* what no detector of the streams assigns
streamRest == <<time_window, all_reports, correlated_events, events, all_events,
                scorerVars, detectorVars, rerunVars, ended, enhancedVars, importVars,
                recognition_input, queue_input, rfid_input, parameters>>

\* the variables of the streams as a detector finds them
Given(position, recognition, queue, rfid, pos, arguments) ==
    /\ pc = position
    /\ recognition_input = recognition
    /\ queue_input = queue
    /\ rfid_input = rfid
    /\ pos_input = pos
    /\ parameters = arguments

\* the lines of product_recognition.jsonl; accuracy in hundredths
Accuracies == {30, 50, 60, 70, 90}
RecognitionInputs ==
    SeqsUpTo({RecognitionRecord(t, "SCC1", a) : t \in RunTimes, a \in Accuracies},
             MaxRecords)

\* analysis_product_recognition.load_product_recognition_data: the record of a
\* line, flattened
recognition_event(record) ==
    [timestamp |-> record.timestamp,
     station_id |-> record.station_id,
     predicted_product |-> record.data.predicted_product,
     accuracy |-> record.data.accuracy]

\* simple_master_analysis.run_simple_analysis, the recognition step:
\* low_confidence_events
simple_low_confidence_events(recognition_data) ==
    LET flagged(record) == record.data.accuracy < 70
        make(record) ==
            [timestamp |-> record.timestamp,
             station_id |-> record.station_id,
             predicted_product |-> record.data.predicted_product,
             confidence |-> record.data.accuracy,
             severity |-> IF record.data.accuracy < 50 THEN "HIGH" ELSE "MEDIUM"]
    IN  MapSeq(FilterSeq(recognition_data, flagged), make)

\* generate_recognition_analysis_report: LowConfidenceDetector(
\* confidence_threshold=0.7).detect_low_confidence_predictions(recognition_data)
DetectLowConfidence ==
    /\ pc = "recognition_data"
    /\ recognition_detected' =
          detect_low_confidence_predictions(MapSeq(recognition_input, recognition_event),
                                            parameters.confidence_threshold)
    /\ pc' = "low_confidence_detected"
    /\ UNCHANGED <<streamRest, queue_detected, rfid_detected, swapping_detected>>

\* enhanced_master_analysis.main: analyze_product_recognition(recognition_data)
AnalyzeProductRecognition ==
    /\ pc = "recognition_data"
    /\ recognition_detected' = analyze_product_recognition(recognition_input)
    /\ pc' = "enhanced_low_confidence_detected"
    /\ UNCHANGED <<streamRest, queue_detected, rfid_detected, swapping_detected>>

\* simple_master_analysis.run_simple_analysis, the recognition step
SimpleRecognitionStep ==
    /\ pc = "recognition_data"
    /\ recognition_detected' = simple_low_confidence_events(recognition_input)
    /\ pc' = "simple_low_confidence_detected"
    /\ UNCHANGED <<streamRest, queue_detected, rfid_detected, swapping_detected>>

\* events of one station in an input
MaxStationEvents == 7

\* the gap threshold of the report and of the constructor, in seconds, and the
\* thresholds a ScannerAvoidanceDetector is given
DefaultTimeGap == 60
TimeGapThresholds == {DefaultTimeGap, 120}

\* the ISO string of the time n seconds after the hour
AtSecond(n) == <<n \div 60, n % 60>>

\* the flattened recognition events of one station, in the order of time: each
\* follows the one before after G or G + 1 seconds; accuracies in hundredths
StationHistory(station_id, G, late, accuracy) ==
    [i \in DOMAIN accuracy |->
        [timestamp |-> AtSecond(i * G + Cardinality({j \in 2..i : late[j]})),
         station_id |-> station_id,
         predicted_product |-> "PRD_B_01",
         accuracy |-> accuracy[i]]]

Reverse(s) == [i \in 1..Len(s) |-> s[Len(s) + 1 - i]]

\* station_data: the stations in the order they first appear in the list
RECURSIVE StationIds(_)
StationIds(data) ==
    IF data = <<>> THEN <<>>
    ELSE LET before == StationIds(SubSeq(data, 1, Len(data) - 1))
         IN  IF \E k \in 1..Len(before) : before[k] = data[Len(data)].station_id
             THEN before
             ELSE Append(before, data[Len(data)].station_id)

\* look_back = max(0, i-5) with the indices counted from 1: one window too long
look_back_Six(i) == IF i - 6 > 1 THEN i - 6 ELSE 1

\* look_back = max(0, i-5), with the indices counted from 1
look_back(i) == IF i - 5 > 1 THEN i - 5 ELSE 1

\* ScannerAvoidanceDetector(time_gap_threshold=G).detect_scanner_avoidance
detect_scanner_avoidance(recognition_data, G) ==
    LET ofStation(station_id) ==
            LET here(record) == record.station_id = station_id
                records == SortByTimestamp(FilterSeq(recognition_data, here))
                time_gap(i) == fromisoformat(records[i].timestamp)
                                  - fromisoformat(records[i - 1].timestamp)
                recent_low_confidence(i) ==
                    Cardinality({j \in look_back(i)..(i - 1) : records[j].accuracy < 60})
                flagged(i) == time_gap(i) > G /\ recent_low_confidence(i) >= 2
                make(i) ==
                    [timestamp |-> records[i].timestamp,
                     station_id |-> station_id,
                     time_gap_seconds |-> time_gap(i),
                     previous_low_confidence_count |-> recent_low_confidence(i),
                     suspected_reason |-> "SCANNER_AVOIDANCE_AFTER_LOW_CONFIDENCE"]
            IN  MapSeq(FilterSeq([k \in 1..(Len(records) - 1) |-> k + 1], flagged), make)
    IN  Concat(MapSeq(StationIds(recognition_data), ofStation))

\* generate_recognition_analysis_report: ScannerAvoidanceDetector(
\* time_gap_threshold).detect_scanner_avoidance(recognition_data)
DetectScannerAvoidance ==
    /\ pc = "flat_recognition_data"
    /\ recognition_detected' =
          detect_scanner_avoidance(recognition_input, parameters.time_gap_threshold)
    /\ pc' = "scanner_avoidance_detected"
    /\ UNCHANGED <<streamRest, queue_detected, rfid_detected, swapping_detected>>

\* the thresholds a DwellTimeAnomalyDetector is given: those of the report, which
\* are the defaults of the constructor, and another pair
DwellThresholds ==
    {[high_threshold |-> 300, low_threshold |-> 10],
     [high_threshold |-> 600, low_threshold |-> 5]}

\* the flattened queue observations: observation i carries the i-th customer
\* count and dwell time, and is stamped i seconds after the hour
QueueObservations(customer_count, dwell) ==
    [i \in DOMAIN dwell |->
        [timestamp |-> AtSecond(i), station_id |-> "SCC1",
         customer_count |-> customer_count[i], average_dwell_time |-> dwell[i]]]

\* ten minutes counted as more than ten minutes
dwell_severity_FromTenMinutes(dwell_time) == IF dwell_time >= 600 THEN "HIGH" ELSE "MEDIUM"

\* 'HIGH' if dwell_time > 600 else 'MEDIUM'
dwell_severity(dwell_time) == IF dwell_time > 600 THEN "HIGH" ELSE "MEDIUM"

\* DwellTimeAnomalyDetector(high, low).detect_dwell_anomalies
detect_dwell_anomalies(queue_data, high_threshold, low_threshold) ==
    LET anomaly(record, anomaly_type, severity) ==
            [timestamp |-> record.timestamp,
             station_id |-> record.station_id,
             customer_count |-> record.customer_count,
             dwell_time |-> record.average_dwell_time,
             anomaly_type |-> anomaly_type,
             severity |-> severity]
        ofRecord(record) ==
            IF record.customer_count = 0 THEN <<>>
            ELSE IF record.average_dwell_time > high_threshold
            THEN <<anomaly(record, "HIGH_DWELL_TIME",
                           dwell_severity(record.average_dwell_time))>>
            ELSE IF record.average_dwell_time < low_threshold /\ record.customer_count > 0
            THEN <<anomaly(record, "LOW_DWELL_TIME", "MEDIUM")>>
            ELSE <<>>
    IN  Concat(MapSeq(queue_data, ofRecord))

\* generate_queue_analysis_report: DwellTimeAnomalyDetector(high_dwell_threshold,
\* low_dwell_threshold).detect_dwell_anomalies(queue_data)
DetectDwellAnomalies ==
    /\ pc = "queue_data"
    /\ queue_detected' = detect_dwell_anomalies(queue_input, parameters.high_threshold,
                                                parameters.low_threshold)
    /\ pc' = "dwell_anomalies_detected"
    /\ UNCHANGED <<streamRest, recognition_detected, rfid_detected, swapping_detected>>

\* the congestion threshold of the report
CongestionThreshold == 2

\* the flattened queue observations an input is made of: two instants, an empty
\* and two crowded stations, and a second station
CongestionRecords ==
    {[timestamp |-> t, station_id |-> "SCC1", customer_count |-> c,
      average_dwell_time |-> 50] : t \in RunTimes, c \in {0, 3, 5}}
    \cup {[timestamp |-> <<0, 0>>, station_id |-> "SCC2", customer_count |-> 5,
           average_dwell_time |-> 50]}

\* records.index(record): the first position, counted from 1, of a record that
\* equals it
index(records, record) ==
    CHOOSE i \in 1..Len(records) :
        records[i] = record /\ \A j \in 1..(i - 1) : records[j] # record

\* the loop over the sorted records of a station up to record n:
\* congested_periods, and current_congestion as a list that is empty for None
RECURSIVE CongestionLoop(_, _, _)
CongestionLoop(records, T, n) ==
    IF n = 0 THEN [congested_periods |-> <<>>, current_congestion |-> <<>>]
    ELSE
    LET before == CongestionLoop(records, T, n - 1)
        record == records[n]
        current == before.current_congestion[1]
    IN  IF record.customer_count > T
        THEN IF before.current_congestion = <<>>
             THEN [congested_periods |-> before.congested_periods,
                   current_congestion |->
                      <<[start_time |-> record.timestamp,
                         peak_customers |-> record.customer_count,
                         total_observations |-> 1]>>]
             ELSE [congested_periods |-> before.congested_periods,
                   current_congestion |->
                      <<[start_time |-> current.start_time,
                         peak_customers |->
                            IF current.peak_customers > record.customer_count
                            THEN current.peak_customers ELSE record.customer_count,
                         total_observations |-> current.total_observations + 1,
                         end_time |-> record.timestamp]>>]
        ELSE IF before.current_congestion # <<>>
             THEN [congested_periods |->
                      Append(before.congested_periods,
                             [start_time |-> current.start_time,
                              peak_customers |-> current.peak_customers,
                              total_observations |-> current.total_observations,
                              end_time |->
                                 IF index(records, record) > 1
                                 THEN records[index(records, record) - 1].timestamp
                                 ELSE current.start_time]),
                   current_congestion |-> <<>>]
             ELSE before

\* CongestionAnalyzer(congestion_threshold=T).analyze_congestion_patterns:
\* station_congestion_stats[station_id]['congested_periods'] for each station
analyze_congestion_patterns(queue_data, T) ==
    LET ofStation(station_id) ==
            LET here(record) == record.station_id = station_id
                records == SortByTimestamp(FilterSeq(queue_data, here))
                looped == CongestionLoop(records, T, Len(records))
                current == looped.current_congestion[1]
            IN  IF looped.current_congestion # <<>>
                THEN Append(looped.congested_periods,
                            [start_time |-> current.start_time,
                             peak_customers |-> current.peak_customers,
                             total_observations |-> current.total_observations,
                             end_time |-> records[Len(records)].timestamp])
                ELSE looped.congested_periods
    IN  [station_id \in {queue_data[i].station_id : i \in 1..Len(queue_data)} |->
            ofStation(station_id)]

\* generate_queue_analysis_report: CongestionAnalyzer(congestion_threshold=2)
\* .analyze_congestion_patterns(queue_data)
AnalyzeCongestion ==
    /\ pc = "congestion_data"
    /\ queue_detected' =
          analyze_congestion_patterns(queue_input, parameters.congestion_threshold)
    /\ pc' = "congestion_analyzed"
    /\ UNCHANGED <<streamRest, recognition_detected, rfid_detected, swapping_detected>>

\* runs of null readings in one input
MaxRuns == 2

\* consecutive null readings from which a streak is reported
MissingTagStreak == 10

\* the epc of a reading without a tag: JSON null, None in Python
None == "None"

\* the flattened RFID readings: reading i carries the i-th epc and location and
\* is stamped i seconds after the hour
RfidReadings(epc, location) ==
    [i \in DOMAIN epc |->
        [timestamp |-> AtSecond(i), station_id |-> "SCC1",
         epc |-> epc[i], location |-> location[i],
         sku |-> IF epc[i] = None THEN None ELSE "PRD_B_01"]]

\* the epcs of an input: for each run, so many null readings, then so many
\* readings of a tag
RECURSIVE Epcs(_, _, _)
Epcs(nulls, tags, n) ==
    IF n = 0 THEN <<>>
    ELSE Epcs(nulls, tags, n - 1) \o [i \in 1..nulls[n] |-> None]
                                  \o [i \in 1..tags[n] |-> "E1"]

\* sorted(rfid_data, key=lambda x: x['timestamp']): a stable sort on the strings
SortedByTimestampString(rfid_data) == SortByTimestamp(rfid_data)

\* a streak counts only from eleven readings
reported_OverTen(streak) == streak.count > MissingTagStreak

\* current_null_streak['count'] >= 10
reported(streak) == streak.count >= MissingTagStreak

\* the loop over the sorted readings up to reading n: missing_tag_events, and
\* current_null_streak as a list that is empty for None
RECURSIVE NullStreakLoop(_, _)
NullStreakLoop(readings, n) ==
    IF n = 0 THEN [missing_tag_events |-> <<>>, current_null_streak |-> <<>>]
    ELSE
    LET before == NullStreakLoop(readings, n - 1)
        record == readings[n]
        current == before.current_null_streak[1]
    IN  IF record.epc = None
        THEN IF before.current_null_streak = <<>>
             THEN [missing_tag_events |-> before.missing_tag_events,
                   current_null_streak |->
                      <<[start_time |-> record.timestamp,
                         station_id |-> record.station_id,
                         count |-> 1]>>]
             ELSE [missing_tag_events |-> before.missing_tag_events,
                   current_null_streak |->
                      <<[start_time |-> current.start_time,
                         station_id |-> current.station_id,
                         count |-> current.count + 1,
                         end_time |-> record.timestamp]>>]
        ELSE [missing_tag_events |->
                 IF before.current_null_streak # <<>> /\ reported(current)
                 THEN Append(before.missing_tag_events, current)
                 ELSE before.missing_tag_events,
              current_null_streak |-> <<>>]

\* RFIDCoverageAnalyzer.analyze_rfid_coverage: missing_tag_events
analyze_rfid_coverage(rfid_data) ==
    LET readings == SortedByTimestampString(rfid_data)
        looped == NullStreakLoop(readings, Len(readings))
    IN  IF looped.current_null_streak # <<>> /\ reported(looped.current_null_streak[1])
        THEN Append(looped.missing_tag_events, looped.current_null_streak[1])
        ELSE looped.missing_tag_events

\* generate_rfid_analysis_report: RFIDCoverageAnalyzer().analyze_rfid_coverage(
\* rfid_data)
AnalyzeRfidCoverage ==
    /\ pc = "rfid_data"
    /\ rfid_detected' = analyze_rfid_coverage(rfid_input)
    /\ pc' = "rfid_coverage_analyzed"
    /\ UNCHANGED <<streamRest, recognition_detected, queue_detected, swapping_detected>>

\* readings of one tag in an input
MaxReadings == 6

\* the loop over the sorted readings of a tag up to reading n: prev_location
\* and journey['movement_pattern']
RECURSIVE MovementLoop(_, _)
MovementLoop(readings, n) ==
    IF n = 0 THEN [prev_location |-> None, movement_pattern |-> <<>>]
    ELSE
    LET before == MovementLoop(readings, n - 1)
        reading == readings[n]
        current_location == reading.location
    IN  IF current_location # None /\ current_location # before.prev_location
        THEN [prev_location |-> current_location,
              movement_pattern |->
                 IF before.prev_location # None
                 THEN Append(before.movement_pattern,
                             [timestamp |-> reading.timestamp,
                              from_location |-> before.prev_location,
                              to_location |-> current_location])
                 ELSE before.movement_pattern]
        ELSE before

\* tag_readings: the tags in the order they first appear in the list
RECURSIVE TagIds(_)
TagIds(rfid_data) ==
    IF rfid_data = <<>> THEN <<>>
    ELSE LET before == TagIds(SubSeq(rfid_data, 1, Len(rfid_data) - 1))
             epc == rfid_data[Len(rfid_data)].epc
         IN  IF epc = None \/ \E k \in 1..Len(before) : before[k] = epc
             THEN before
             ELSE Append(before, epc)

\* RFIDMovementTracker.track_tag_movements: suspicious_movements.  The list of
\* locations of an EXCESSIVE_MOVEMENT entry, which has the order of a Python
\* set, is left out.
track_tag_movements(rfid_data) ==
    LET ofTag(epc) ==
            LET tagged(record) == record.epc = epc
                readings == SortByTimestamp(FilterSeq(rfid_data, tagged))
                sku == IF readings[1].sku # None THEN readings[1].sku ELSE "UNKNOWN"
                locations_visited ==
                    {readings[i].location : i \in 1..Len(readings)} \ {None}
                movement_pattern == MovementLoop(readings, Len(readings)).movement_pattern
                locations_sequence ==
                    [k \in 1..Len(movement_pattern) |-> movement_pattern[k].to_location]
                back(i) == /\ locations_sequence[i] = locations_sequence[i + 2]
                           /\ locations_sequence[i] # locations_sequence[i + 1]
                hits == {i \in 1..(Len(locations_sequence) - 2) : back(i)}
                firstHit == CHOOSE i \in hits : \A j \in hits : i <= j
            IN  (IF Cardinality(locations_visited) > 5
                 THEN <<[epc |-> epc, sku |-> sku, reason |-> "EXCESSIVE_MOVEMENT",
                         locations_count |-> Cardinality(locations_visited)]>>
                 ELSE <<>>)
                \o
                (IF Len(movement_pattern) > 3 /\ hits # {}
                 THEN <<[epc |-> epc, sku |-> sku, reason |-> "RAPID_BACK_AND_FORTH",
                         pattern |-> SubSeq(locations_sequence, firstHit, firstHit + 2),
                         timestamp |-> movement_pattern[firstHit + 1].timestamp]>>
                 ELSE <<>>)
    IN  Concat(MapSeq(TagIds(rfid_data), ofTag))

\* generate_rfid_analysis_report: RFIDMovementTracker().track_tag_movements(
\* rfid_data)
TrackTagMovements ==
    /\ pc = "tag_readings"
    /\ rfid_detected' = track_tag_movements(rfid_input)
    /\ pc' = "tag_movements_tracked"
    /\ UNCHANGED <<streamRest, recognition_detected, queue_detected, swapping_detected>>

\* the rows of the frame of transactions: prices in cents, weights in grams
PricedRows ==
    {[sku |-> sku, price |-> price, expected_weight |-> expected_weight,
      actual_weight |-> actual_weight] :
        sku \in {"PRD_B_01", "PRD_F_01"}, price \in {100, 200},
        expected_weight \in {100, 200}, actual_weight \in {0, 100, 200, 400}}

\* row i of the frame, stamped i seconds after the hour
Transactions(rows) ==
    [i \in DOMAIN rows |->
        [timestamp |-> AtSecond(i), customer_id |-> "C001", station_id |-> "SCC1",
         sku |-> rows[i].sku, product_name |-> "Coca-Cola (1.5L)",
         price |-> rows[i].price, expected_weight |-> rows[i].expected_weight,
         actual_weight |-> rows[i].actual_weight]]

\* a quotient of two numbers kept exact, as numerator and positive denominator
Quotient(a, b) == <<a, b>>
QuotientLess(x, y) == x[1] * y[2] < y[1] * x[2]
QuotientLeq(x, y) == x[1] * y[2] <= y[1] * x[2]

\* np.mean of the quotients q[1], ..., q[n]
RECURSIVE QuotientSum(_, _)
QuotientSum(q, n) ==
    IF n = 0 THEN Quotient(0, 1)
    ELSE LET before == QuotientSum(q, n - 1)
         IN  Quotient(before[1] * q[n][2] + q[n][1] * before[2], before[2] * q[n][2])
np_mean(q) == Quotient(QuotientSum(q, Len(q))[1], QuotientSum(q, Len(q))[2] * Len(q))

\* current_ppg < expected_ppg * 0.5
TooCheap(current_ppg, expected_ppg) ==
    QuotientLess(current_ppg, Quotient(expected_ppg[1], expected_ppg[2] * 2))

\* BarcodeSwappingDetector.detect_barcode_swapping
detect_barcode_swapping(transactions_df) ==
    LET price_per_gram(sku) ==
            LET priced(transaction) ==
                    transaction.sku = sku /\ transaction.expected_weight > 0
                ppg(transaction) == Quotient(transaction.price, transaction.expected_weight)
            IN  MapSeq(FilterSeq(transactions_df, priced), ppg)
        current_ppg(transaction) == Quotient(transaction.price, transaction.actual_weight)
        expected_ppg(transaction) ==
            IF price_per_gram(transaction.sku) # <<>>
            THEN np_mean(price_per_gram(transaction.sku))
            ELSE current_ppg(transaction)
        flagged(transaction) ==
            /\ transaction.actual_weight # 0
            /\ expected_ppg(transaction)[1] > 0
            /\ TooCheap(current_ppg(transaction), expected_ppg(transaction))
        make(transaction) ==
            [timestamp |-> transaction.timestamp,
             customer_id |-> transaction.customer_id,
             station_id |-> transaction.station_id,
             sku |-> transaction.sku,
             product_name |-> transaction.product_name,
             price |-> transaction.price,
             actual_weight |-> transaction.actual_weight,
             current_price_per_gram |-> current_ppg(transaction),
             expected_price_per_gram |-> expected_ppg(transaction),
             price_ratio |-> Quotient(
                 current_ppg(transaction)[1] * expected_ppg(transaction)[2],
                 current_ppg(transaction)[2] * expected_ppg(transaction)[1]),
             suspicion_reason |-> "LOW_PRICE_PER_WEIGHT"]
    IN  MapSeq(FilterSeq(transactions_df, flagged), make)

\* generate_pos_analysis_report: BarcodeSwappingDetector().detect_barcode_swapping(
\* transactions_df)
DetectBarcodeSwapping ==
    /\ pc = "transactions_df"
    /\ swapping_detected' = detect_barcode_swapping(pos_input)
    /\ pc' = "barcode_swapping_detected"
    /\ UNCHANGED <<streamRest, recognition_detected, queue_detected, rfid_detected>>

StreamsInit ==
    /\ \/ \E recognition \in RecognitionInputs :
             Given("recognition_data", recognition, <<>>, <<>>, <<>>,
                   [confidence_threshold |-> ConfidenceThreshold])
       \/ \E late \in [2..MaxStationEvents -> BOOLEAN] :
          \E accuracy \in [1..MaxStationEvents -> {50, 60}] :
             Given("flat_recognition_data",
                   StationHistory("SCC1", DefaultTimeGap, late, accuracy),
                   <<>>, <<>>, <<>>, [time_gap_threshold |-> DefaultTimeGap])
       \/ \E G \in TimeGapThresholds : \E m \in 0..MaxRecords : \E n \in 0..(MaxRecords - m) :
          \E late \in [2..MaxRecords -> BOOLEAN] :
          \E a \in [1..m -> {50, 60}] : \E b \in [1..n -> {50, 60}] :
          \E backwards \in BOOLEAN :
             LET recognition == StationHistory("SCC1", G, late, a)
                                   \o StationHistory("SCC2", G, late, b)
             IN  Given("flat_recognition_data",
                       IF backwards THEN Reverse(recognition) ELSE recognition,
                       <<>>, <<>>, <<>>, [time_gap_threshold |-> G])
       \/ \E thresholds \in DwellThresholds : \E n \in 0..(MaxRecords - 1) :
          \E customer_count \in [1..n -> {0, 2}] :
          \E dwell \in [1..n -> {5, 10, 300, 301, 600, 601}] :
             Given("queue_data", <<>>, QueueObservations(customer_count, dwell),
                   <<>>, <<>>, thresholds)
       \/ \E n \in 0..(MaxRecords + 1) : \E queue \in [1..n -> CongestionRecords] :
             Given("congestion_data", <<>>, queue, <<>>, <<>>,
                   [congestion_threshold |-> CongestionThreshold])
       \/ \E nulls \in [1..MaxRuns -> {0, 1, MissingTagStreak - 1, MissingTagStreak,
                                        MissingTagStreak + 1}] :
          \E tags \in [1..MaxRuns -> 0..2] :
          \E backwards \in BOOLEAN :
             LET epc == Epcs(nulls, tags, MaxRuns)
                 rfid == RfidReadings(epc, [i \in DOMAIN epc |-> "A"])
             IN  Given("rfid_data", <<>>, <<>>,
                       IF backwards THEN Reverse(rfid) ELSE rfid, <<>>, <<>>)
       \/ \E n \in 0..MaxReadings : \E location \in [1..n -> {"A", "B", "C"}] :
             Given("tag_readings", <<>>, <<>>,
                   RfidReadings([i \in 1..n |-> "E1"], location), <<>>, <<>>)
       \/ \E n \in 0..(MaxRecords - 1) : \E rows \in [1..n -> PricedRows] :
             Given("transactions_df", <<>>, <<>>, <<>>, Transactions(rows), <<>>)
    /\ recognition_detected = <<>>
    /\ queue_detected = <<>>
    /\ rfid_detected = <<>>
    /\ swapping_detected = <<>>
    /\ inventory_input = <<>> /\ threshold = 0 /\ shrinkage_detected = <<>>
    /\ tolerance = 0 /\ discrepancies = <<>>
    /\ ImportIdle
    /\ RerunIdle
    /\ ended = {}
    /\ EnhancedIdle
    /\ time_window = DefaultWindow
    /\ all_reports = <<>>
    /\ correlated_events = <<>>
    /\ events = <<>>
    /\ all_events = <<>>
    /\ ScorerIdle

StreamsNext ==
    \/ DetectLowConfidence
    \/ AnalyzeProductRecognition
    \/ SimpleRecognitionStep
    \/ DetectScannerAvoidance
    \/ DetectDwellAnomalies
    \/ AnalyzeCongestion
    \/ AnalyzeRfidCoverage
    \/ TrackTagMovements
    \/ DetectBarcodeSwapping

SpecStreams == StreamsInit /\ [][StreamsNext]_vars

\* the records of the input with an accuracy under 0.7, in their order
LowAccuracy ==
    LET low(record) == record.data.accuracy < 70
    IN  FilterSeq(recognition_input, low)

\* C24: each of the three low-confidence detectors flags a recognition event
\* if and only if its accuracy is under 0.7 (0.7 itself is not flagged), and
\* labels a flagged event HIGH if its accuracy is under 0.5 and MEDIUM
\* otherwise (0.5 itself is MEDIUM).
C24_LowConfidenceLabels ==
    pc \in {"low_confidence_detected", "enhanced_low_confidence_detected",
            "simple_low_confidence_detected"} =>
        /\ Len(recognition_detected) = Len(LowAccuracy)
        /\ \A k \in 1..Len(recognition_detected) :
              /\ recognition_detected[k].timestamp = LowAccuracy[k].timestamp
              /\ recognition_detected[k].confidence = LowAccuracy[k].data.accuracy
              /\ recognition_detected[k].severity =
                    IF LowAccuracy[k].data.accuracy < 50 THEN "HIGH" ELSE "MEDIUM"

\* the events of a station in the order of time
StationRecords(station_id) ==
    LET here(record) == record.station_id = station_id
    IN  SortByTimestamp(FilterSeq(recognition_input, here))

\* the candidates emitted for a station with the timestamp of an event
AvoidanceAt(station_id, timestamp) ==
    {k \in 1..Len(recognition_detected) :
        /\ recognition_detected[k].station_id = station_id
        /\ recognition_detected[k].timestamp = timestamp}

AnomaliesAt(i) ==
    {k \in 1..Len(queue_detected) : queue_detected[k].timestamp = queue_input[i].timestamp}

StationObservations(station_id) ==
    LET here(record) == record.station_id = station_id
    IN  SortByTimestamp(FilterSeq(queue_input, here))

\* C27: for each station the recorded congested_periods are the maximal runs of
\* consecutive observations, in the order of time, with customer_count over the
\* threshold: start_time and end_time are the timestamps of the first and the
\* last observation of the run (so start_time <= end_time), peak_customers is
\* the largest customer_count of the run and total_observations its length.
C27_CongestedPeriods ==
    pc = "congestion_analyzed" =>
        \A station_id \in DOMAIN queue_detected :
            LET records == StationObservations(station_id)
                periods == queue_detected[station_id]
                congested(i) ==
                    records[i].customer_count > parameters.congestion_threshold
                first(i) == congested(i) /\ (i = 1 \/ ~congested(i - 1))
                starts == FilterSeq([i \in 1..Len(records) |-> i], first)
                last(a) == CHOOSE b \in a..Len(records) :
                              /\ \A i \in a..b : congested(i)
                              /\ b = Len(records) \/ ~congested(b + 1)
            IN  /\ Len(periods) = Len(starts)
                /\ \A k \in 1..Len(periods) :
                      LET a == starts[k]
                          b == last(starts[k])
                      IN  /\ periods[k].start_time = records[a].timestamp
                          /\ periods[k].end_time = records[b].timestamp
                          /\ TsLeq(periods[k].start_time, periods[k].end_time)
                          /\ \E i \in a..b :
                                periods[k].peak_customers = records[i].customer_count
                          /\ \A i \in a..b :
                                periods[k].peak_customers >= records[i].customer_count
                          /\ periods[k].total_observations = b - a + 1

\* a maximal run of null readings: from reading a to reading b of the readings
\* in the order of time
NullRun(readings, a, b) ==
    /\ a <= b
    /\ \A i \in a..b : readings[i].epc = None
    /\ a = 1 \/ readings[a - 1].epc # None
    /\ b = Len(readings) \/ readings[b + 1].epc # None

\* C28: analyze_rfid_coverage reports one missing-tag event for each maximal run
\* of consecutive null readings of length 10 or more, and none for a shorter
\* run: 9 null readings are not reported, 10 are, also when they end the data.
C28_MissingTagRuns ==
    pc = "rfid_coverage_analyzed" =>
        LET readings == SortByTimestamp(rfid_input)
            long == {r \in (1..Len(rfid_input)) \X (1..Len(rfid_input)) :
                        NullRun(readings, r[1], r[2]) /\ r[2] - r[1] + 1 >= 10}
        IN  /\ Len(rfid_detected) = Cardinality(long)
            /\ \A r \in long :
                  \E k \in 1..Len(rfid_detected) :
                     /\ rfid_detected[k].start_time = readings[r[1]].timestamp
                     /\ rfid_detected[k].end_time = readings[r[2]].timestamp
                     /\ rfid_detected[k].count = r[2] - r[1] + 1

\* nine null readings, a tag read, then ten null readings to the end of the
\* data: the ten alone are reported
C28_Witness ==
    /\ pc = "rfid_coverage_analyzed"
    /\ Len(rfid_input) = 20
    /\ LET readings == SortByTimestamp(rfid_input)
       IN  /\ NullRun(readings, 1, 9)
           /\ NullRun(readings, 11, 20)
           /\ Len(rfid_detected) = 1
           /\ rfid_detected[1].count = 10
           /\ rfid_detected[1].start_time = readings[11].timestamp

\* the locations a tag visits in the order of time, a stay counted once
RECURSIVE Visits(_)
Visits(readings) ==
    IF readings = <<>> THEN <<>>
    ELSE LET before == Visits(SubSeq(readings, 1, Len(readings) - 1))
             location == readings[Len(readings)].location
         IN  IF location = None \/ (before # <<>> /\ before[Len(before)] = location)
             THEN before
             ELSE Append(before, location)

\* C29: a tag is flagged RAPID_BACK_AND_FORTH whenever its visits in the order
\* of time hold a pattern A, B, A with A # B anywhere, also when A, B, A is the
\* whole of its visits.
C29_BackAndForthFlagged ==
    pc = "tag_movements_tracked" =>
        LET visits == Visits(SortByTimestamp(rfid_input))
        IN  (\E i \in 1..(Len(visits) - 2) :
                visits[i] = visits[i + 2] /\ visits[i] # visits[i + 1])
            => \E k \in 1..Len(rfid_detected) :
                  /\ rfid_detected[k].epc = "E1"
                  /\ rfid_detected[k].reason = "RAPID_BACK_AND_FORTH"

\* the sum of the price-per-gram of the transactions of a SKU, and their number
SkuTransactions(sku) == {i \in 1..Len(pos_input) : pos_input[i].sku = sku}

\* C30: detect_barcode_swapping flags a transaction with a nonzero weight if
\* and only if its price-per-gram is at most 50 percent of the average
\* price-per-gram of its SKU over all transactions; at exactly 50 percent it
\* is flagged.
C30_HalfPriceFlagged ==
    pc = "barcode_swapping_detected" =>
        \A i \in 1..Len(pos_input) :
            LET transaction == pos_input[i]
                ofSku(t) == t.sku = transaction.sku
                average == np_mean(MapSeq(FilterSeq(pos_input, ofSku),
                                          LAMBDA t : Quotient(t.price, t.expected_weight)))
                half == Quotient(average[1], average[2] * 2)
            IN  transaction.actual_weight # 0 =>
                   ((\E k \in 1..Len(swapping_detected) :
                        swapping_detected[k].timestamp = transaction.timestamp)
                    <=> QuotientLeq(Quotient(transaction.price, transaction.actual_weight),
                                    half))

====
